---- MODULE Spec2Model ----
(***************************************************************************)
(* Model of arbpp::arb (src/src/arbpp.hpp): a real number kept as a ball   *)
(* (midpoint, radius) with a working precision, layered on the Arb / MPFR  *)
(* backend.  Finite backend numbers are kept as integers counting units of *)
(* 2^-FracBits; non-finite ones are tagged records.                        *)
(***************************************************************************)
EXTENDS Integers, Sequences, FiniteSets, TLC

\* ------------------------------------------------------------------ bounds
\* MPFR exponent range [emin, emax] = [-MaxExp, MaxExp] (the tests clamp it
\* with mpfr_set_emin / mpfr_set_emax; here it is scaled down).
MaxExp == 3
\* Precisions 1..MaxStrPrec are the ones at which rounding of a decimal
\* string is followed bit by bit.
MaxStrPrec == 3
\* Number of mantissa bits of a mag_t radius (MAG_BITS, scaled down).
MagBits == 2
\* Largest precision the backend accepts (MPFR_PREC_MAX, scaled down).
MPFR_PREC_MAX == 64

\* ------------------------------------------------------- program constants
default_prec == 53
MPFR_PREC_MIN == 1

emin == 0 - MaxExp
emax == MaxExp
FracBits == MaxExp + MaxStrPrec + 1

\* ----------------------------------------------------------- integer tools
RECURSIVE Pow2(_)
Pow2(n) == IF n <= 0 THEN 1 ELSE 2 * Pow2(n - 1)

RECURSIVE Pow10(_)
Pow10(n) == IF n <= 0 THEN 1 ELSE 10 * Pow10(n - 1)

\* Number of bits of a natural number (0 for 0).
RECURSIVE BitLen(_)
BitLen(x) == IF x <= 0 THEN 0 ELSE 1 + BitLen(x \div 2)

\* x with its trailing zero bits removed (x > 0).
RECURSIVE OddPart(_)
OddPart(x) == IF x = 0 \/ x % 2 = 1 THEN x ELSE OddPart(x \div 2)

Abs(x) == IF x < 0 THEN 0 - x ELSE x

Max(x, y) == IF x > y THEN x ELSE y

One == Pow2(FracBits)

\* ------------------------------------------------- backend number values
Fin(n) == [k |-> "fin", n |-> n]
PInf == [k |-> "inf", n |-> 1]
NInf == [k |-> "inf", n |-> 0 - 1]
NaN == [k |-> "nan", n |-> 0]
Zero == Fin(0)

IsFin(x) == x.k = "fin"
IsNan(x) == x.k = "nan"
IsInf(x) == x.k = "inf"

\* ---------------------------------------------------- decimal string parse
\* Strings are sequences of one-character strings.
Digits == <<"0", "1", "2", "3", "4", "5", "6", "7", "8", "9">>

is_digit(c) == \E i \in 1..10 : Digits[i] = c

DigitVal(c) == (CHOOSE i \in 1..10 : Digits[i] = c) - 1

IsSpace(c) == c = " "

\* First position >= i of s that is not white space.
RECURSIVE SkipSpace(_, _)
SkipSpace(s, i) ==
    IF i <= Len(s) /\ IsSpace(s[i]) THEN SkipSpace(s, i + 1) ELSE i

\* First position >= i of s that is not a digit.
RECURSIVE SkipDigits(_, _)
SkipDigits(s, i) ==
    IF i <= Len(s) /\ is_digit(s[i]) THEN SkipDigits(s, i + 1) ELSE i

\* Value of the digits s[i..j-1], continuing the value acc.
RECURSIVE DigitsValue(_, _, _, _)
DigitsValue(s, i, j, acc) ==
    IF i >= j THEN acc ELSE DigitsValue(s, i + 1, j, 10 * acc + DigitVal(s[i]))

\* TRUE iff the characters of w occur in s from position i on.
HasWord(s, i, w) ==
    /\ i + Len(w) - 1 <= Len(s)
    /\ \A j \in 1..Len(w) : s[i + j - 1] = w[j]

NoParse == [endptr |-> 0, kind |-> "none", neg |-> FALSE, num |-> 0, den |-> 1]

\* mpfr_strtofr in base 10: white space, an optional sign, then "nan",
\* "inf", "infinity" or digits with an optional radix point and an optional
\* exponent.  endptr is the number of characters consumed (0: no number).
\* A number is returned as the exact fraction num / den.
HasSign(s, i) == i <= Len(s) /\ s[i] \in {"+", "-"}

\* The number mant * 10^e10 whose text ends before position endNum.
parsed_number(neg, mant, e10, endNum) ==
    [endptr |-> endNum - 1, kind |-> "num", neg |-> neg,
     num |-> IF e10 >= 0 THEN mant * Pow10(e10) ELSE mant,
     den |-> IF e10 >= 0 THEN 1 ELSE Pow10(0 - e10)]

\* The exponent digits s[i4..i5-1] after "e" at i3; an "e" without digits
\* is not part of the number.
parse_exponent(s, neg, mant, nFrac, i3, i4, i5) ==
    IF i5 > i4
      THEN parsed_number(neg, mant,
                         (IF s[i4 - 1] = "-" THEN 0 - DigitsValue(s, i4, i5, 0)
                          ELSE DigitsValue(s, i4, i5, 0)) - nFrac,
                         i5)
    ELSE parsed_number(neg, mant, 0 - nFrac, i3)

\* The optional exponent at position i3, after the mantissa.
parse_after_mantissa(s, neg, mant, nFrac, i3, i4) ==
    IF i3 <= Len(s) /\ s[i3] \in {"e", "E"}
      THEN parse_exponent(s, neg, mant, nFrac, i3, i4, SkipDigits(s, i4))
    ELSE parsed_number(neg, mant, 0 - nFrac, i3)

\* The mantissa: integer digits s[i1..i2-1] and fraction digits up to i3.
parse_mantissa(s, neg, i1, i2, i3) ==
    IF (i2 - i1) + (IF i3 > i2 THEN i3 - (i2 + 1) ELSE 0) = 0
      THEN NoParse
    ELSE parse_after_mantissa(s, neg,
                              DigitsValue(s, i2 + 1, i3, DigitsValue(s, i1, i2, 0)),
                              IF i3 > i2 THEN i3 - (i2 + 1) ELSE 0,
                              i3,
                              IF HasSign(s, i3 + 1) THEN i3 + 2 ELSE i3 + 1)

\* The digits from i1 on, with the integer part ending before i2.
parse_digits(s, neg, i1, i2) ==
    parse_mantissa(s, neg, i1, i2,
                   IF i2 <= Len(s) /\ s[i2] = "." THEN SkipDigits(s, i2 + 1) ELSE i2)

\* What follows the optional sign, from position i1 on.
parse_after_sign(s, neg, i1) ==
    IF HasWord(s, i1, <<"n", "a", "n">>)
      THEN [endptr |-> i1 + 2, kind |-> "nan", neg |-> neg, num |-> 0, den |-> 1]
    ELSE IF HasWord(s, i1, <<"i", "n", "f", "i", "n", "i", "t", "y">>)
      THEN [endptr |-> i1 + 7, kind |-> "inf", neg |-> neg, num |-> 0, den |-> 1]
    ELSE IF HasWord(s, i1, <<"i", "n", "f">>)
      THEN [endptr |-> i1 + 2, kind |-> "inf", neg |-> neg, num |-> 0, den |-> 1]
    ELSE parse_digits(s, neg, i1, SkipDigits(s, i1))

\* What follows the leading white space, from position i0 on.
parse_after_space(s, i0) ==
    IF HasSign(s, i0) THEN parse_after_sign(s, s[i0] = "-", i0 + 1)
    ELSE parse_after_sign(s, FALSE, i0)

strtofr_parse(s) == parse_after_space(s, SkipSpace(s, 1))

\* ------------------------------------------------------- MPFR arithmetic
\* Smallest positive and largest finite MPFR magnitudes (in units): a
\* number is 0.1xxx * 2^e with emin <= e <= emax and p mantissa bits.
MinPos == Pow2(emin - 1 + FracBits)

MaxFin(p) == Pow2(emax + FracBits) - Pow2(emax + FracBits - p)

\* MPFR exponent of a positive magnitude a (in units).
ExpOf(a) == BitLen(a) - FracBits

\* The range check on the rounded magnitude R of q + r/den units.
range_check(q, r, den, sh, R, t0) ==
    IF ExpOf(R) > emax
      THEN [mag |-> PInf, tern |-> 1, uf |-> FALSE,
            grid |-> sh >= 0 \/ r = 0 \/ ExpOf(q) > emax]
    ELSE IF ExpOf(R) < emin
      THEN (IF 4 * (q * den + r) > MinPos * den * 2
              THEN [mag |-> Fin(MinPos), tern |-> 1, uf |-> TRUE,
                    grid |-> sh >= 0 \/ r = 0 \/ ExpOf(q + 1) < emin]
            ELSE [mag |-> Zero, tern |-> 0 - 1, uf |-> TRUE,
                  grid |-> sh >= 0 \/ r = 0 \/ ExpOf(q + 1) < emin])
    ELSE [mag |-> Fin(R), tern |-> t0, uf |-> FALSE, grid |-> sh >= 0 \/ r = 0]

\* q + r/den lies above the middle of lo and lo + u, or on it with lo odd.
rounds_up(q, r, den, u, lo) ==
    \/ 2 * ((q - lo) * den + r) > u * den
    \/ 2 * ((q - lo) * den + r) = u * den /\ (lo \div u) % 2 = 1

\* lo is q with the bits below the last kept one (weight u) cleared.
round_nearest(q, r, den, sh, u, lo) ==
    IF q = lo /\ r = 0 THEN range_check(q, r, den, sh, q, 0)
    ELSE IF rounds_up(q, r, den, u, lo) THEN range_check(q, r, den, sh, lo + u, 1)
    ELSE range_check(q, r, den, sh, lo, 0 - 1)

\* sh is the number of bits of q below the p kept ones.
round_at(q, r, den, sh) ==
    round_nearest(q, r, den, sh, Pow2(Max(sh, 0)),
                  (q \div Pow2(Max(sh, 0))) * Pow2(Max(sh, 0)))

\* q whole units and the fraction r/den of a unit.
round_units(q, r, den, p) ==
    IF q = 0 THEN [mag |-> Zero, tern |-> 0 - 1, uf |-> TRUE, grid |-> TRUE]
    ELSE round_at(q, r, den, BitLen(q) - p)

\* Rounding to nearest (ties to even) of the positive fraction num / den to
\* p bits, with MPFR's range check afterwards: overflow gives infinity,
\* underflow (judged after rounding) raises the underflow flag.
\*   mag: the rounded magnitude, tern: sign of (rounded - exact),
\*   uf: underflow flag raised, grid: the result is a whole number of units.
RoundMag(num, den, p) ==
    IF num = 0 THEN [mag |-> Zero, tern |-> 0, uf |-> FALSE, grid |-> TRUE]
    ELSE round_units((num * One) \div den, (num * One) % den, den, p)

Neg(x) == IF IsFin(x) THEN Fin(0 - x.n) ELSE IF IsInf(x) THEN [k |-> "inf", n |-> 0 - x.n] ELSE x

\* The rounding m of a magnitude, given the sign of the number.
with_sign(neg, m) ==
    IF neg THEN [mag |-> Neg(m.mag), tern |-> 0 - m.tern, uf |-> m.uf, grid |-> m.grid]
    ELSE m

\* Signed version: the fraction is (-1)^neg * num / den.
mpfr_round(neg, num, den, p) == with_sign(neg, RoundMag(num, den, p))

\* Neighbour of the positive p-bit magnitude a away from zero / towards zero.
NextAway(a, p) ==
    IF a = 0 THEN Fin(MinPos)
    ELSE IF a = MaxFin(p) THEN PInf
    ELSE Fin(a + Pow2(BitLen(a) - p))

NextToZero(a, p) ==
    IF a = 0 THEN Fin(0 - MinPos)
    ELSE IF a = MinPos THEN Zero
    ELSE IF a = Pow2(BitLen(a) - 1) THEN Fin(a - Pow2(BitLen(a) - p - 1))
    ELSE Fin(a - Pow2(BitLen(a) - p))

mpfr_nextabove(x, p) ==
    IF x = NInf THEN Fin(0 - MaxFin(p))
    ELSE IF ~IsFin(x) THEN x
    ELSE IF x.n >= 0 THEN NextAway(x.n, p)
    ELSE Neg(NextToZero(0 - x.n, p))

mpfr_nextbelow(x, p) ==
    IF x = PInf THEN Fin(MaxFin(p))
    ELSE IF ~IsFin(x) THEN x
    ELSE IF x.n > 0 THEN NextToZero(x.n, p)
    ELSE Neg(NextAway(0 - x.n, p))

\* mpfr_sub(x, y) rounded to nearest at p bits.
mpfr_sub(x, y, p) ==
    IF IsNan(x) \/ IsNan(y) THEN [mag |-> NaN, tern |-> 0, uf |-> FALSE, grid |-> TRUE]
    ELSE IF IsInf(x) /\ IsInf(y) /\ x.n = y.n
      THEN [mag |-> NaN, tern |-> 0, uf |-> FALSE, grid |-> TRUE]
    ELSE IF IsInf(x) THEN [mag |-> x, tern |-> 0, uf |-> FALSE, grid |-> TRUE]
    ELSE IF IsInf(y) THEN [mag |-> Neg(y), tern |-> 0, uf |-> FALSE, grid |-> TRUE]
    ELSE mpfr_round(x.n - y.n < 0, Abs(x.n - y.n), One, p)

mpfr_number_p(x) == IsFin(x)

\* TRUE iff num / den is a dyadic number whose mantissa fits in p bits.
Representable(num, den, p) ==
    \/ num = 0
    \/ \E j \in 0..10 : /\ (num * Pow2(j)) % den = 0
                        /\ BitLen(OddPart((num * Pow2(j)) \div den)) <= p

\* ------------------------------------------------------------ mag_t bounds
\* Upper bound of the magnitude a with MagBits mantissa bits.
MagUp(a) ==
    LET sh == BitLen(a) - MagBits
        u == Pow2(Max(sh, 0))
    IN  IF sh <= 0 THEN a ELSE ((a + u - 1) \div u) * u

\* mag_set_fmpr: upper bound of |x|.
mag_set_fmpr(x) ==
    IF IsFin(x) THEN Fin(MagUp(Abs(x.n))) ELSE PInf

\* --------------------------------------------------- Arb ball arithmetic
\* A long or unsigned long too wide for the unit grid: the integer
\* 2^e + 1 (e > 0), or its opposite, kept by its exponent; it has e + 1
\* significant bits.
Wide(neg, e) == [k |-> "wide", n |-> IF neg THEN 0 - e ELSE e]

\* 2^e or its opposite: what is left of Wide(neg, e) without its last bit.
WidePow2(neg, e) == [k |-> "pow2", n |-> IF neg THEN 0 - e ELSE e]

\* Number of significant bits of a finite value (0 for 0).
SigBits(v) ==
    IF v.k = "wide" THEN Abs(v.n) + 1
    ELSE IF v.k = "pow2" THEN 1
    ELSE BitLen(OddPart(Abs(v.n)))

\* arf rounding used by the arb_* functions (towards zero) of x to prec
\* bits: the rounded value and the error bound (one ulp when inexact).
arf_round_wide(x, prec) ==
    IF SigBits(x) <= prec THEN [val |-> x, err |-> 0]
    ELSE [val |-> WidePow2(x.n < 0, Abs(x.n)), err |-> Pow2(SigBits(x) - prec) * One]

arf_round(x, prec) ==
    IF x.k = "wide" THEN arf_round_wide(x, prec)
    ELSE IF ~IsFin(x) THEN [val |-> x, err |-> 0]
    ELSE LET a == Abs(x.n)
             sh == BitLen(a) - prec
             u == Pow2(Max(sh, 0))
             lo == (a \div u) * u
         IN  IF sh <= 0 \/ lo = a THEN [val |-> x, err |-> 0]
             ELSE [val |-> Fin(IF x.n < 0 THEN 0 - lo ELSE lo), err |-> u]

arf_add(x, y) ==
    IF IsNan(x) \/ IsNan(y) THEN NaN
    ELSE IF IsInf(x) /\ IsInf(y) THEN (IF x.n = y.n THEN x ELSE NaN)
    ELSE IF IsInf(x) THEN x
    ELSE IF IsInf(y) THEN y
    ELSE Fin(x.n + y.n)

Sign(n) == IF n > 0 THEN 1 ELSE IF n < 0 THEN 0 - 1 ELSE 0

arf_mul(x, y) ==
    IF IsNan(x) \/ IsNan(y) THEN NaN
    ELSE IF IsInf(x) \/ IsInf(y)
      THEN (IF Sign(x.n) * Sign(y.n) = 0 THEN NaN
            ELSE [k |-> "inf", n |-> Sign(x.n) * Sign(y.n)])
    ELSE Fin((x.n * y.n) \div One)

\* The product of two finite values is a whole number of units.
MulOnGrid(x, y) == ~(IsFin(x) /\ IsFin(y)) \/ (x.n * y.n) % One = 0

\* Upper bound of the sum of two radii; slack is the extra unit in the last
\* place that mag_add may add to the correctly rounded bound.
mag_add(x, y, slack) ==
    IF IsInf(x) \/ IsInf(y) THEN PInf
    ELSE IF x.n = 0 THEN y
    ELSE IF y.n = 0 THEN x
    ELSE LET up == MagUp(x.n + y.n)
         IN  Fin(up + slack * Pow2(Max(BitLen(up) - MagBits, 0)))

\* Upper bound of the product of two magnitudes (arf or mag values).
mag_mul(x, y) ==
    IF (IsFin(x) /\ x.n = 0) \/ (IsFin(y) /\ y.n = 0) THEN Zero
    ELSE IF ~IsFin(x) \/ ~IsFin(y) THEN PInf
    ELSE Fin(MagUp((Abs(x.n) * Abs(y.n) + One - 1) \div One))

\* Radius of a result: the propagated radius r plus the rounding error of
\* the midpoint (arf_mag_add_ulp).
add_ulp(r, rd, slack) ==
    IF rd.err = 0 THEN r ELSE mag_add(r, Fin(MagUp(rd.err)), slack)

\* A midpoint and a radius, without a precision.
MidRad(mid, rad) == [mid |-> mid, rad |-> rad]

arb_add(a, b, prec, slack) ==
    LET rd == arf_round(arf_add(a.mid, b.mid), prec)
    IN  MidRad(rd.val, add_ulp(mag_add(a.rad, b.rad, slack), rd, slack))

\* Faulty variant of arb_neg: the midpoint is made negative.
arb_neg_minus_abs(a) ==
    MidRad(IF IsFin(a.mid) THEN Fin(0 - Abs(a.mid.n)) ELSE Neg(a.mid), a.rad)

arb_neg(a) == MidRad(Neg(a.mid), a.rad)

arb_sub(a, b, prec, slack) == arb_add(a, arb_neg(b), prec, slack)

arb_mul(a, b, prec, slack) ==
    LET rd == arf_round(arf_mul(a.mid, b.mid), prec)
        r == mag_add(mag_add(mag_mul(a.mid, b.rad), mag_mul(b.mid, a.rad), slack),
                     mag_mul(a.rad, b.rad), slack)
    IN  MidRad(rd.val, add_ulp(r, rd, slack))

arb_op(op, a, b, prec, slack) ==
    IF op = "add" THEN arb_add(a, b, prec, slack)
    ELSE IF op = "sub" THEN arb_sub(a, b, prec, slack)
    ELSE arb_mul(a, b, prec, slack)

\* Faulty variant of arb_set_round: the rounding error is not added.
arb_set_round_no_error(a, prec, slack) == MidRad(arf_round(a.mid, prec).val, a.rad)

\* arb_set_round: the ball rounded to prec bits.
arb_set_round(a, prec, slack) ==
    LET rd == arf_round(a.mid, prec)
    IN  MidRad(rd.val, add_ulp(a.rad, rd, slack))

\* Faulty variant of arb_add_error_arf: the radius is replaced by |err|.
arb_add_error_arf_replace(r, err, slack) == mag_set_fmpr(err)

\* arb_add_error_arf: the radius r enlarged by |err|.
arb_add_error_arf(r, err, slack) ==
    IF IsFin(err) /\ err.n = 0 THEN r
    ELSE IF IsFin(r) /\ r.n = 0 THEN mag_set_fmpr(err)
    ELSE mag_add(r, mag_set_fmpr(err), slack)

\* arb_cos: the backend's enclosures of the cosine of a ball, to the
\* resolution the model keeps: cos(0) is 1 exactly, a ball that is not
\* finite gives [0 +/- 1], and any other ball a ball inside [-1, 1] with a
\* positive radius.
arb_cos(a) ==
    IF a.mid = Zero /\ a.rad = Zero THEN {MidRad(Fin(One), Zero)}
    ELSE IF ~IsFin(a.mid) \/ ~IsFin(a.rad) THEN {MidRad(Zero, Fin(One))}
    ELSE {MidRad(Zero, Fin(One)), MidRad(Fin(One \div 2), Fin(One \div 2))}

\* ------------------------------------------------------------------ state
Slots == 1..2

VARIABLES
    balls,   \* balls[i]: the arb object in slot i (m_arb midpoint and radius, m_prec)
    ret,     \* the temporary arb returned by the last value-returning operation
    call,    \* the last operation: its name, arguments and outcome
    trace,   \* the backend calls and stream writes of the last operation, in order
    uflag,   \* MPFR's global underflow flag
    arg      \* the text and precision the caller passes to arb(str, prec)

vars == <<balls, ret, call, trace, uflag, arg>>

\* An arb object; live is FALSE before construction and after destruction.
Ball(mid, rad, prec) == [live |-> TRUE, mid |-> mid, rad |-> rad, prec |-> prec]

NoBall == [live |-> FALSE, mid |-> Zero, rad |-> Zero, prec |-> 0]

NoStr == <<>>

Call(op, self, other, prec, x, fam, str, result) ==
    [op |-> op, self |-> self, other |-> other, prec |-> prec, x |-> x,
     fam |-> fam, str |-> str, result |-> result]

NoCall == Call("none", 0, 0, 0, Zero, "none", NoStr, "ok")

\* The process is running (no backend assertion has aborted it) and the
\* temporary returned by the previous full expression has been destroyed.
Running == call.result # "abort" /\ ~ret.live

\* ------------------------------------------------------------ set_precision
\* Faulty variant of precision_invalid: no upper limit.
precision_invalid_below_only(prec) == prec < 1

\* The test of arb::set_precision: TRUE iff prec is rejected.
precision_invalid(prec) ==
    prec < 1 \/ prec < MPFR_PREC_MIN \/ prec > MPFR_PREC_MAX

\* mpfr_init2 asserts (MPFR_ASSERTN) that the precision is in MPFR's range.
mpfr_init2_aborts(prec) == prec < MPFR_PREC_MIN \/ prec > MPFR_PREC_MAX

\* ------------------------------------------- constructor from a string
\* Faulty variant of string_rejected: what follows the number is ignored.
string_rejected_unparsed_only(endptr, len) == endptr = 0

\* The test on endptr after mpfr_strtofr: TRUE iff the input is rejected.
string_rejected(endptr, len) == endptr = 0 \/ endptr # len

\* mpfr_strtofr(m, str, &endptr, 10, MPFR_RNDN) at precision prec.
strtofr_number(endptr, rd) ==
    [endptr |-> endptr, m |-> rd.mag, retval |-> rd.tern, uf |-> rd.uf, grid |-> rd.grid]

strtofr_result(ps, prec) ==
    IF ps.kind = "nan"
      THEN [endptr |-> ps.endptr, m |-> NaN, retval |-> 0, uf |-> FALSE, grid |-> TRUE]
    ELSE IF ps.kind = "inf"
      THEN [endptr |-> ps.endptr, m |-> IF ps.neg THEN NInf ELSE PInf, retval |-> 0,
            uf |-> FALSE, grid |-> TRUE]
    ELSE IF ps.kind = "none"
      THEN [endptr |-> 0, m |-> Zero, retval |-> 0, uf |-> FALSE, grid |-> TRUE]
    ELSE strtofr_number(ps.endptr, mpfr_round(ps.neg, ps.num, ps.den, prec))

mpfr_strtofr(s, prec) == strtofr_result(strtofr_parse(s), prec)

\* tmp0: the neighbour of the midpoint m on the side of the exact value.
radius_neighbour(m, retval, prec) ==
    IF retval < 0 THEN mpfr_nextabove(m, prec) ELSE mpfr_nextbelow(m, prec)

\* tmp1: the distance between m and tmp0, by mpfr_sub.
radius_distance(m, tmp0, retval, prec) ==
    IF retval < 0 THEN mpfr_sub(tmp0, m, prec) ELSE mpfr_sub(m, tmp0, prec)

\* Faulty variants of has_radius: one gives a radius only to a midpoint
\* rounded upwards, the other also to a midpoint that is not a number.
has_radius_rounded_up(retval, m) == retval > 0 /\ mpfr_number_p(m)

has_radius_any_midpoint(retval, m) == retval # 0

\* The test that decides whether a radius is computed.
has_radius(retval, m) == retval # 0 /\ mpfr_number_p(m)

\* mpfr_underflow_p() after the parse and after the radius computation.
parse_underflow(st) == st.uf

\* Faulty variant of radius_underflow: the flag is not looked at.
radius_underflow_ignored(tmp1) == FALSE

radius_underflow(tmp1) == tmp1.uf

\* The backend calls up to the parse, and up to the radius computation.
trace_parse ==
    <<<<"mpfr_clear_underflow", "flags">>, <<"mpfr_init2", "m">>, <<"mpfr_strtofr", "m">>>>

trace_neighbour(retval) ==
    trace_parse \o <<<<"mpfr_init2", "tmp0">>, <<"mpfr_init2", "tmp1">>,
                     <<"mpfr_set", "tmp0">>, <<"mpfr_set", "tmp1">>,
                     <<IF retval < 0 THEN "mpfr_nextabove" ELSE "mpfr_nextbelow", "tmp0">>>>

\* Faulty variant of unwind_radius: m is not cleared.
unwind_radius_leaks_m == <<<<"mpfr_clear", "tmp1">>, <<"mpfr_clear", "tmp0">>>>

\* The destructors of tmp1, tmp0 and m, in reverse order of construction.
unwind_radius ==
    <<<<"mpfr_clear", "tmp1">>, <<"mpfr_clear", "tmp0">>, <<"mpfr_clear", "m">>>>

Failure(result, uf, tr) ==
    [result |-> result, ball |-> NoBall, uflag |-> uf, trace |-> tr]

\* The end of the inexact branch: tmp1 is the computed distance.
ctor_set_radius(prec, st, tmp1) ==
    IF radius_underflow(tmp1)
      THEN Failure("underflow_error", FALSE,
                   trace_neighbour(st.retval)
                   \o <<<<"mpfr_sub", "tmp1">>, <<"mpfr_clear_underflow", "flags">>>>
                   \o unwind_radius)
    ELSE [result |-> "ok",
          ball |-> Ball(st.m, mag_set_fmpr(tmp1.mag), prec),
          uflag |-> FALSE,
          trace |-> trace_neighbour(st.retval)
                    \o <<<<"mpfr_sub", "tmp1">>, <<"arb_init", "m_arb">>,
                         <<"arf_set_mpfr", "m_arb">>, <<"fmpr_init", "f">>,
                         <<"fmpr_set_mpfr", "f">>, <<"mag_set_fmpr", "m_arb">>,
                         <<"fmpr_clear", "f">>>>
                    \o unwind_radius]

\* The inexact branch: tmp0 is the neighbour of m.
ctor_radius(prec, asserts, st, tmp0) ==
    IF asserts /\ ~mpfr_number_p(tmp0)
      THEN Failure("abort", FALSE, trace_neighbour(st.retval))
    ELSE ctor_set_radius(prec, st, radius_distance(st.m, tmp0, st.retval, prec))

\* The constructor after the parse: st is what mpfr_strtofr returned.
ctor_after_parse(s, prec, asserts, st) ==
    IF string_rejected(st.endptr, Len(s))
      THEN Failure("invalid_argument", st.uf, trace_parse \o <<<<"mpfr_clear", "m">>>>)
    ELSE IF parse_underflow(st)
      THEN Failure("underflow_error", FALSE,
                   trace_parse \o <<<<"mpfr_clear_underflow", "flags">>, <<"mpfr_clear", "m">>>>)
    ELSE IF precision_invalid(prec)
      THEN Failure("invalid_argument", FALSE, trace_parse \o <<<<"mpfr_clear", "m">>>>)
    ELSE IF has_radius(st.retval, st.m)
      THEN ctor_radius(prec, asserts, st, radius_neighbour(st.m, st.retval, prec))
    ELSE [result |-> "ok", ball |-> Ball(st.m, Zero, prec), uflag |-> FALSE,
          trace |-> trace_parse \o <<<<"arb_init", "m_arb">>, <<"arf_set_mpfr", "m_arb">>,
                                     <<"mpfr_clear", "m">>>>]

\* The whole constructor arb(str, prec).  asserts tells whether assert() is
\* compiled in (no NDEBUG).  uflag is the flag when the constructor ends.
string_ctor(s, prec, asserts) ==
    IF mpfr_init2_aborts(prec)
      THEN Failure("abort", FALSE,
                   <<<<"mpfr_clear_underflow", "flags">>, <<"mpfr_init2", "m">>>>)
    ELSE ctor_after_parse(s, prec, asserts, mpfr_strtofr(s, prec))

\* The strings and precisions whose rounded value the model can hold.
in_model(s, prec, st) ==
    \/ string_rejected(st.endptr, Len(s))
    \/ /\ st.grid
       /\ st.retval = 0 \/ ~mpfr_number_p(st.m) \/ st.uf \/ prec <= MaxStrPrec

InModel(s, prec) == mpfr_init2_aborts(prec) \/ in_model(s, prec, mpfr_strtofr(s, prec))

\* The state after the constructor returned or threw r.
string_ctor_done(i, s, prec, r) ==
    /\ balls' = [balls EXCEPT ![i] = r.ball]
    /\ call' = Call("ctor_str", i, 0, prec, Zero, "none", s, r.result)
    /\ trace' = r.trace
    /\ uflag' = r.uflag

StringCtor(i, s, prec) ==
    /\ Running
    /\ ~balls[i].live
    /\ InModel(s, prec)
    /\ \E asserts \in BOOLEAN : string_ctor_done(i, s, prec, string_ctor(s, prec, asserts))
    /\ ret' = NoBall
    /\ UNCHANGED arg

\* ~arb(): the destructor.
Destroy(i) ==
    /\ Running
    /\ balls[i].live
    /\ balls' = [balls EXCEPT ![i] = NoBall]
    /\ call' = Call("dtor", i, 0, 0, Zero, "none", NoStr, "ok")
    /\ trace' = <<<<"arb_clear", "m_arb">>>>
    /\ ret' = NoBall
    /\ UNCHANGED <<uflag, arg>>

\* ~arb() of the temporary a value-returning operation left behind.
DestroyTemp ==
    /\ call.result # "abort"
    /\ ret.live
    /\ ret' = NoBall
    /\ call' = Call("dtor_temp", 0, 0, 0, Zero, "none", NoStr, "ok")
    /\ trace' = <<<<"arb_clear", "retval">>>>
    /\ UNCHANGED <<balls, uflag, arg>>

\* ------------------------------------------------------ the other members
\* Bounds of the values kept in the life-cycle specification: midpoints are
\* whole numbers up to MaxMid in magnitude, radii are at most MaxRad.
MaxMid == 1

MaxRad == 1

InDomain(b) ==
    /\ IsFin(b.mid) => Abs(b.mid.n) <= MaxMid * One /\ b.mid.n % One = 0
    /\ IsFin(b.rad) => b.rad.n <= MaxRad * One /\ b.rad.n % One = 0

\* Values of the interoperable types: signed and unsigned integers, doubles.
Native(fam, val) == [fam |-> fam, slot |-> 0, val |-> val]

NativeVals == {Native("si", Fin(0 - One)), Native("ui", Fin(One)), Native("d", Fin(One))}

BallArg(i) == [fam |-> "ball", slot |-> i, val |-> Zero]

\* v with the bits after the first prec significant ones dropped.
truncate_bits(v, prec) ==
    IF v.k = "wide" /\ SigBits(v) > prec THEN WidePow2(v.n < 0, Abs(v.n))
    ELSE IF v.k = "fin" THEN arf_round(v, prec).val
    ELSE v

\* Faulty variant of construct: the value is rounded to the default
\* precision.
construct_rounded(x) == MidRad(truncate_bits(x.val, default_prec), Zero)

\* construct(x): arb_set_si, arb_set_ui, or arf_set_d followed by
\* arb_set_arf; each sets the midpoint to x exactly and the radius to zero.
construct(x) == MidRad(x.val, Zero)

construct_trace(x) ==
    IF x.fam = "si" THEN <<<<"arb_set_si", "m_arb">>>>
    ELSE IF x.fam = "ui" THEN <<<<"arb_set_ui", "m_arb">>>>
    ELSE <<<<"arf_init", "tmp_arf">>, <<"arf_set_d", "tmp_arf">>,
           <<"arb_set_arf", "m_arb">>, <<"arf_clear", "tmp_arf">>>>

WithPrec(mr, prec) == Ball(mr.mid, mr.rad, prec)

\* An operation on slot i that returns no arb and leaves the flag alone.
Step(newBalls, newCall, newTrace) ==
    /\ balls' = newBalls
    /\ call' = newCall
    /\ trace' = newTrace
    /\ ret' = NoBall
    /\ UNCHANGED <<uflag, arg>>

\* Faulty variant of default_arb: m_prec is not initialised to the default.
default_arb_no_prec == Ball(Zero, Zero, 0)

\* A default-constructed arb: m_prec(get_default_precision()) and arb_init,
\* which sets midpoint and radius to zero.
default_arb == Ball(Zero, Zero, default_prec)

\* arb()
DefaultCtor(i) ==
    /\ Running
    /\ ~balls[i].live
    /\ Step([balls EXCEPT ![i] = default_arb],
            Call("ctor_default", i, 0, 0, Zero, "none", NoStr, "ok"),
            <<<<"arb_init", "m_arb">>>>)

\* arb(const arb &other)
CopyCtor(i, j) ==
    /\ Running
    /\ ~balls[i].live /\ balls[j].live
    /\ Step([balls EXCEPT ![i] = balls[j]],
            Call("ctor_copy", i, j, 0, Zero, "ball", NoStr, "ok"),
            <<<<"arb_init", "m_arb">>, <<"arb_set", "m_arb">>>>)

\* Faulty variant of swapped: the two m_prec stay where they were.
swapped_value_only(bs, i, j) ==
    [bs EXCEPT ![i] = WithPrec(MidRad(bs[j].mid, bs[j].rad), bs[i].prec),
               ![j] = WithPrec(MidRad(bs[i].mid, bs[i].rad), bs[j].prec)]

\* swap(other): nothing when other is this object.
swapped(bs, i, j) ==
    IF i = j THEN bs ELSE [bs EXCEPT ![i] = bs[j], ![j] = bs[i]]

\* Faulty variant of move_ctor: other is copied and left as it was.
move_ctor_copies(bs, i, j) == [bs EXCEPT ![i] = bs[j]]

\* arb(arb &&other): a default arb swapped with other.
move_ctor(bs, i, j) == swapped([bs EXCEPT ![i] = default_arb], i, j)

MoveCtor(i, j) ==
    /\ Running
    /\ ~balls[i].live /\ balls[j].live
    /\ Step(move_ctor(balls, i, j),
            Call("ctor_move", i, j, 0, Zero, "ball", NoStr, "ok"),
            <<<<"arb_init", "m_arb">>, <<"arb_swap", "m_arb">>>>)

\* arb(const T &x)
GenericCtor(i, x) ==
    /\ Running
    /\ ~balls[i].live
    /\ Step([balls EXCEPT ![i] = WithPrec(construct(x), default_prec)],
            Call("ctor_generic", i, 0, 0, x.val, x.fam, NoStr, "ok"),
            <<<<"arb_init", "m_arb">>>> \o construct_trace(x))

\* Faulty variant of generic_ctor_prec: the storage is initialised before
\* the precision is validated.
generic_ctor_prec_init_first(x, prec, slack) ==
    IF precision_invalid(prec)
      THEN [result |-> "invalid_argument", ball |-> NoBall,
            trace |-> <<<<"arb_init", "m_arb">>>>]
      ELSE [result |-> "ok",
            ball |-> WithPrec(arb_set_round(construct(x), prec, slack), prec),
            trace |-> <<<<"arb_init", "m_arb">>>> \o construct_trace(x)
                      \o <<<<"arb_set_round", "m_arb">>>>]

\* arb(const T &x, long prec): the outcome, the object and the backend calls.
generic_ctor_prec(x, prec, slack) ==
    IF precision_invalid(prec)
      THEN [result |-> "invalid_argument", ball |-> NoBall, trace |-> <<>>]
      ELSE [result |-> "ok",
            ball |-> WithPrec(arb_set_round(construct(x), prec, slack), prec),
            trace |-> <<<<"arb_init", "m_arb">>>> \o construct_trace(x)
                      \o <<<<"arb_set_round", "m_arb">>>>]

\* The state after the constructor returned or threw r.
generic_ctor_prec_done(i, x, prec, r) ==
    Step([balls EXCEPT ![i] = r.ball],
         Call("ctor_generic_prec", i, 0, prec, x.val, x.fam, NoStr, r.result),
         r.trace)

GenericCtorPrec(i, x, prec, slack) ==
    /\ Running
    /\ ~balls[i].live
    /\ generic_ctor_prec_done(i, x, prec, generic_ctor_prec(x, prec, slack))

\* Faulty variant of copy_assign: m_prec is not copied.
copy_assign_value_only(bs, i, j) ==
    IF i = j THEN bs ELSE [bs EXCEPT ![i] = WithPrec(bs[j], bs[i].prec)]

\* Faulty variant of copy_assign: the two objects are exchanged.
copy_assign_swaps(bs, i, j) == [bs EXCEPT ![i] = bs[j], ![j] = bs[i]]

\* operator=(const arb &other): nothing when other is this object, else
\* arb_set and the copy of m_prec.
copy_assign(bs, i, j) ==
    IF i = j THEN bs ELSE [bs EXCEPT ![i] = bs[j]]

CopyAssign(i, j) ==
    /\ Running
    /\ balls[i].live /\ balls[j].live
    /\ Step(copy_assign(balls, i, j),
            Call("assign_copy", i, j, 0, Zero, "ball", NoStr, "ok"),
            IF i = j THEN <<>> ELSE <<<<"arb_set", "m_arb">>>>)

\* Faulty variant of move_assign: other is reset to a default arb.
move_assign_resets(bs, i, j) ==
    IF i = j THEN bs ELSE [bs EXCEPT ![i] = bs[j], ![j] = default_arb]

\* operator=(arb &&other): swap(other).
move_assign(bs, i, j) == swapped(bs, i, j)

MoveAssign(i, j) ==
    /\ Running
    /\ balls[i].live /\ balls[j].live
    /\ Step(move_assign(balls, i, j),
            Call("assign_move", i, j, 0, Zero, "ball", NoStr, "ok"),
            IF i = j THEN <<>> ELSE <<<<"arb_swap", "m_arb">>>>)

\* Faulty variant of generic_assign: m_prec is left as it was.
generic_assign_keeps_prec(b, x) == WithPrec(construct(x), b.prec)

\* operator=(const T &x): m_prec = get_default_precision(), then construct(x).
generic_assign(b, x) == WithPrec(construct(x), default_prec)

GenericAssign(i, x) ==
    /\ Running
    /\ balls[i].live
    /\ Step([balls EXCEPT ![i] = generic_assign(balls[i], x)],
            Call("assign_generic", i, 0, 0, x.val, x.fam, NoStr, "ok"),
            construct_trace(x))

\* swap(arb &other) and the free function swap(a0, a1)
Swap(i, j) ==
    /\ Running
    /\ balls[i].live /\ balls[j].live
    /\ Step(swapped(balls, i, j),
            Call("swap", i, j, 0, Zero, "ball", NoStr, "ok"),
            IF i = j THEN <<>> ELSE <<<<"arb_swap", "m_arb">>>>)

\* The free function swap(a0, a1): a0.swap(a1).
free_swap(bs, i, j) == swapped(bs, i, j)

FreeSwap(i, j) ==
    /\ Running
    /\ balls[i].live /\ balls[j].live
    /\ Step(free_swap(balls, i, j),
            Call("free_swap", i, j, 0, Zero, "ball", NoStr, "ok"),
            IF i = j THEN <<>> ELSE <<<<"arb_swap", "m_arb">>>>)

\* The test of arb::add_error: TRUE iff err is rejected.
add_error_rejects(err) == IsNan(err) \/ (IsFin(err) /\ err.n <= 0) \/ err = NInf

\* add_error(double err): the new state of the object, or the failure.
add_error(b, err, slack) ==
    IF add_error_rejects(err)
      THEN [result |-> "invalid_argument", ball |-> b, trace |-> <<>>]
      ELSE [result |-> "ok",
            ball |-> [b EXCEPT !.rad = arb_add_error_arf(b.rad, err, slack)],
            trace |-> <<<<"arf_init", "tmp_arf">>, <<"arf_set_d", "tmp_arf">>,
                        <<"arb_add_error_arf", "m_arb">>, <<"arf_clear", "tmp_arf">>>>]

\* The state after add_error returned or threw r.
add_error_done(i, err, r) ==
    Step([balls EXCEPT ![i] = r.ball],
         Call("add_error", i, 0, 0, err, "d", NoStr, r.result),
         r.trace)

AddError(i, err, slack) ==
    /\ Running
    /\ balls[i].live
    /\ add_error_done(i, err, add_error(balls[i], err, slack))

\* Faulty variant of set_precision: m_prec is written before the test.
set_precision_write_first(b, prec) ==
    [result |-> IF precision_invalid(prec) THEN "invalid_argument" ELSE "ok",
     ball |-> [b EXCEPT !.prec = prec]]

\* set_precision(long prec): the new state of the object, or the failure.
set_precision(b, prec) ==
    IF precision_invalid(prec)
      THEN [result |-> "invalid_argument", ball |-> b]
      ELSE [result |-> "ok", ball |-> [b EXCEPT !.prec = prec]]

\* The state after set_precision returned or threw r.
set_precision_done(i, prec, r) ==
    Step([balls EXCEPT ![i] = r.ball],
         Call("set_precision", i, 0, prec, Zero, "none", NoStr, r.result),
         <<>>)

SetPrecision(i, prec) ==
    /\ Running
    /\ balls[i].live
    /\ set_precision_done(i, prec, set_precision(balls[i], prec))

\* negate()
Negate(i) ==
    /\ Running
    /\ balls[i].live
    /\ Step([balls EXCEPT ![i] = WithPrec(arb_neg(balls[i]), balls[i].prec)],
            Call("negate", i, 0, 0, Zero, "none", NoStr, "ok"),
            <<<<"arb_neg", "m_arb">>>>)

\* The backend entry point an operation with operand x goes through.
op_trace(op, x) ==
    IF x.fam = "ball" THEN <<<<"arb_" \o op, "m_arb">>>>
    ELSE IF x.fam = "si" THEN <<<<"arb_" \o op \o "_si", "m_arb">>>>
    ELSE IF x.fam = "ui" THEN <<<<"arb_" \o op \o "_ui", "m_arb">>>>
    ELSE <<<<"arf_init", "tmp_arf">>, <<"arf_set_d", "tmp_arf">>,
           <<"arb_" \o op \o "_arf", "m_arb">>, <<"arf_clear", "tmp_arf">>>>

\* Faulty variant of in_place: the operation runs at the precision of the
\* receiver and m_prec is raised afterwards.
in_place_late_raise(op, b, x, o, slack) ==
    IF x.fam = "ball"
      THEN WithPrec(arb_op(op, b, o, b.prec, slack),
                    IF o.prec > b.prec THEN o.prec ELSE b.prec)
      ELSE WithPrec(arb_op(op, b, construct(x), b.prec, slack), b.prec)

\* in_place_add / in_place_sub / in_place_mul: the receiver b afterwards;
\* x is the operand (an arb o, or a native value).
in_place(op, b, x, o, slack) ==
    IF x.fam = "ball"
      THEN LET prec == IF o.prec > b.prec THEN o.prec ELSE b.prec
           IN  WithPrec(arb_op(op, b, o, prec, slack), prec)
      ELSE WithPrec(arb_op(op, b, construct(x), b.prec, slack), b.prec)

\* operator+=, operator-=, operator*=
InPlace(op, i, x, slack) ==
    /\ Running
    /\ balls[i].live
    /\ x.fam = "ball" => balls[x.slot].live
    /\ MulOnGrid(balls[i].mid, IF x.fam = "ball" THEN balls[x.slot].mid ELSE x.val)
    /\ Step([balls EXCEPT ![i] =
                   in_place(op, balls[i], x,
                            IF x.fam = "ball" THEN balls[x.slot] ELSE NoBall, slack)],
              Call("in_place_" \o op, i, x.slot, 0, x.val, x.fam, NoStr, "ok"),
              op_trace(op, x))

\* Faulty variant of binary_balls: the precision of the first operand is used.
binary_balls_first_prec(op, a, b, slack) ==
    WithPrec(arb_op(op, a, b, a.prec, slack), a.prec)

\* binary_add / binary_sub / binary_mul of two arbs.
binary_balls(op, a, b, slack) ==
    LET prec == IF a.prec > b.prec THEN a.prec ELSE b.prec
    IN  WithPrec(arb_op(op, a, b, prec, slack), prec)

\* binary_add / binary_sub / binary_mul of an arb and a native value.
binary_native(op, a, x, slack) ==
    WithPrec(arb_op(op, a, construct(x), a.prec, slack), a.prec)

\* Faulty variant of native_binary: binary_sub(x, a) does not negate.
native_binary_no_negate(op, x, a, slack) == binary_native(op, a, x, slack)

\* The same with the native value on the left: add and mul commute, sub
\* is binary_sub(a, x) followed by negate().
native_binary(op, x, a, slack) ==
    IF op = "sub"
      THEN WithPrec(arb_neg(binary_native(op, a, x, slack)), a.prec)
      ELSE binary_native(op, a, x, slack)

binary(op, x, y, bx, by, slack) ==
    IF x.fam = "ball" /\ y.fam = "ball" THEN binary_balls(op, bx, by, slack)
    ELSE IF x.fam = "ball" THEN binary_native(op, bx, y, slack)
    ELSE native_binary(op, x, by, slack)

\* An operation that returns a new arb and leaves every object alone.
Return(newRet, newCall, newTrace) ==
    /\ ret' = newRet
    /\ call' = newCall
    /\ trace' = newTrace
    /\ UNCHANGED <<balls, uflag, arg>>

\* operator+, operator-, operator* with at least one arb operand
Binary(op, x, y, slack) ==
    /\ Running
    /\ x.fam = "ball" \/ y.fam = "ball"
    /\ x.fam = "ball" => balls[x.slot].live
    /\ y.fam = "ball" => balls[y.slot].live
    /\ MulOnGrid(IF x.fam = "ball" THEN balls[x.slot].mid ELSE x.val,
                 IF y.fam = "ball" THEN balls[y.slot].mid ELSE y.val)
    /\ Return(binary(op, x, y,
                       IF x.fam = "ball" THEN balls[x.slot] ELSE NoBall,
                       IF y.fam = "ball" THEN balls[y.slot] ELSE NoBall, slack),
                Call("binary_" \o op, x.slot, y.slot, 0,
                     IF x.fam = "ball" THEN y.val ELSE x.val,
                     IF x.fam = "ball" THEN y.fam ELSE x.fam, NoStr, "ok"),
                <<<<"arb_init", "retval">>>>
                \o op_trace(op, IF x.fam = "ball" THEN y ELSE x)
                \o (IF op = "sub" /\ x.fam # "ball" THEN <<<<"arb_neg", "retval">>>> ELSE <<>>))

\* operator+() const
UnaryPlus(i) ==
    /\ Running
    /\ balls[i].live
    /\ Return(balls[i],
              Call("unary_plus", i, 0, 0, Zero, "none", NoStr, "ok"),
              <<<<"arb_init", "retval">>, <<"arb_set", "retval">>>>)

\* operator-() const
UnaryMinus(i) ==
    /\ Running
    /\ balls[i].live
    /\ Return(WithPrec(arb_neg(balls[i]), balls[i].prec),
              Call("unary_minus", i, 0, 0, Zero, "none", NoStr, "ok"),
              <<<<"arb_init", "retval">>, <<"arb_set", "retval">>, <<"arb_neg", "retval">>>>)

\* Faulty variant of cos: retval keeps the precision of a default arb.
cos_default_prec(b, c) == WithPrec(c, default_prec)

\* cos() const and the free function cos(a)
cos(b, c) == WithPrec(c, b.prec)

\* The free function cos(a): a.cos().
free_cos(b, c) == cos(b, c)

FreeCos(i) ==
    /\ Running
    /\ balls[i].live
    /\ \E c \in arb_cos(balls[i]) :
         Return(free_cos(balls[i], c),
                Call("free_cos", i, 0, 0, Zero, "none", NoStr, "ok"),
                <<<<"arb_init", "retval">>, <<"arb_cos", "retval">>>>)

Cos(i) ==
    /\ Running
    /\ balls[i].live
    /\ \E c \in arb_cos(balls[i]) :
         Return(cos(balls[i], c),
                Call("cos", i, 0, 0, Zero, "none", NoStr, "ok"),
                <<<<"arb_init", "retval">>, <<"arb_cos", "retval">>>>)

\* ------------------------------------------------------------- streaming
\* Width in bits of mpfr_exp_t in the model, and its extreme values
\* (std::numeric_limits< ::mpfr_exp_t>::min() and max()).
ExpBits == 5

EXP_MIN == 0 - Pow2(ExpBits - 1)

EXP_MAX == Pow2(ExpBits - 1) - 1

\* std::to_string of an exponent.
RECURSIVE nat_string(_)
nat_string(n) ==
    IF n < 10 THEN <<Digits[n + 1]>> ELSE nat_string(n \div 10) \o <<Digits[(n % 10) + 1]>>

to_string(n) == IF n < 0 THEN <<"-">> \o nat_string(0 - n) ELSE nat_string(n)

\* What mpfr_get_str gave: null is TRUE for a null pointer, str is the digit
\* string and exp the value of the local exp after the call (the 0 it was
\* initialised with when the backend did not write it).
StrOut(null, str, exp) == [null |-> null, str |-> str, exp |-> exp]

NullOut == StrOut(TRUE, <<>>, 0)

\* Digit strings and exponents of the backend kept by the model.
DigitStrings == {<<"1">>, <<"2", "5">>}

ZeroStrings == {<<"0">>, <<"0", "0">>}

ExpChoices == {EXP_MIN, EXP_MIN + 1, 0, 1, 2, 11}

\* mpfr_get_str(nullptr, &exp, 10, 0, t, MPFR_RNDN): what the backend can
\* give for the value t.  A value that is not a number gives a word without
\* digits and leaves exp alone, zero gives zeros and the exponent 0, any
\* other value a sign and digits with any exponent; any call can fail.
mpfr_get_str(t) ==
    {NullOut} \cup
    (IF IsNan(t) THEN {StrOut(FALSE, <<"@", "N", "a", "N", "@">>, 0)}
     ELSE IF IsInf(t)
       THEN {StrOut(FALSE, (IF t.n < 0 THEN <<"-">> ELSE <<>>) \o <<"@", "I", "n", "f", "@">>, 0)}
     ELSE IF t.n = 0 THEN {StrOut(FALSE, z, 0) : z \in ZeroStrings}
     ELSE {StrOut(FALSE, (IF t.n < 0 THEN <<"-">> ELSE <<>>) \o d, e) :
              d \in DigitStrings, e \in ExpChoices})

\* std::find_if(..., is_digit): the position of the first digit, 0 for none.
first_digit(str) ==
    IF \E k \in 1..Len(str) : is_digit(str[k])
      THEN CHOOSE k \in 1..Len(str) :
               is_digit(str[k]) /\ \A j \in 1..(k - 1) : ~is_digit(str[j])
    ELSE 0

\* cpp_str.insert(it, '.') with it one past the first digit.
insert_point(str, k) == SubSeq(str, 1, k) \o <<".">> \o SubSeq(str, k + 1, Len(str))

\* --exp in mpfr_exp_t: the decrement wraps at the smallest value.
decrement(e) == IF e = EXP_MIN THEN EXP_MAX ELSE e - 1

\* Faulty variant of exponent_overflows: the exponent is not looked at.
exponent_overflows_unchecked(e) == FALSE

\* The test before --exp.
exponent_overflows(e) == e = EXP_MIN

\* Faulty variant of needs_exponent: zero gets an exponent too.
needs_exponent_any_value(e, is_zero) == e # 0

\* The test that decides whether "e" and the exponent are appended.
needs_exponent(e, is_zero) == e # 0 /\ ~is_zero

\* The test on cptr.
null_string(out) == out.null

\* The outcome of print_fmpr: what it wrote (when it returned) and the
\* value of its local exp when it ended.
Rendering(result, text, exp) == [result |-> result, text |-> text, exp |-> exp]

\* print_fmpr when the string has a digit at position k.
print_digits(is_zero, out, k) ==
    IF exponent_overflows(out.exp) THEN Rendering("invalid_argument", <<>>, out.exp)
    ELSE Rendering("ok",
                 insert_point(out.str, k)
                 \o (IF needs_exponent(decrement(out.exp), is_zero)
                       THEN <<"e">> \o to_string(decrement(out.exp)) ELSE <<>>),
                 decrement(out.exp))

\* print_fmpr of the value v, out being what mpfr_get_str returned.
print_fmpr(v, out) ==
    IF null_string(out) THEN Rendering("invalid_argument", <<>>, out.exp)
    ELSE IF first_digit(out.str) = 0 THEN Rendering("ok", out.str, out.exp)
    ELSE print_digits(IsFin(v) /\ v.n = 0, out, first_digit(out.str))

\* A write to the stream, as an entry of the trace.
Write(text) == <<<<"write", "os", text>>>>

\* The calls of print_arf / print_mag (get is arf_get_fmpr or mag_get_fmpr)
\* and print_fmpr at precision prec; pr is the outcome of print_fmpr.
print_trace(get, prec, out, pr) ==
    <<<<"fmpr_init", "f">>, <<get, "f">>, <<"mpfr_init2", "t", prec>>,
      <<"fmpr_get_mpfr", "t">>, <<"mpfr_get_str", "cptr", out>>, <<"fmpr_clear", "f">>>>
    \o (IF pr.result = "ok" THEN Write(pr.text) ELSE <<>>)
    \o (IF out.null THEN <<>> ELSE <<<<"mpfr_free_str", "cptr">>>>)
    \o <<<<"mpfr_clear", "t">>>>

Streamed(result, tr) == [result |-> result, trace |-> tr]

\* operator<< from the separator on: pm is the outcome for the midpoint.
stream_radius(b, om, pm, or, pr) ==
    Streamed(pr.result,
             Write(<<"(">>) \o print_trace("arf_get_fmpr", b.prec, om, pm)
             \o Write(<<" ", "+", "/", "-", " ">>)
             \o print_trace("mag_get_fmpr", b.prec, or, pr)
             \o (IF pr.result = "ok" THEN Write(<<")">>) ELSE <<>>))

stream_midpoint(b, om, pm, or) ==
    IF pm.result # "ok"
      THEN Streamed(pm.result, Write(<<"(">>) \o print_trace("arf_get_fmpr", b.prec, om, pm))
    ELSE stream_radius(b, om, pm, or, print_fmpr(b.rad, or))

\* operator<<(os, a): om and or are what mpfr_get_str returns for the
\* midpoint and for the radius.
stream(b, om, or) == stream_midpoint(b, om, print_fmpr(b.mid, om), or)

stream_done(i, r) ==
    Step(balls, Call("stream", i, 0, 0, Zero, "none", NoStr, r.result), r.trace)

Stream(i, om, or) ==
    /\ Running
    /\ balls[i].live
    /\ om \in mpfr_get_str(balls[i].mid)
    /\ or \in mpfr_get_str(balls[i].rad)
    /\ stream_done(i, stream(balls[i], om, or))

\* ------------------------------------------------------------- inputs
\* Decimal texts with the number each denotes (num / den), used both as
\* inputs of the constructor and to state what its result must be.
NumBodies == {
    [txt |-> <<"0">>, kind |-> "num", num |-> 0, den |-> 1],
    [txt |-> <<"1">>, kind |-> "num", num |-> 1, den |-> 1],
    [txt |-> <<"6">>, kind |-> "num", num |-> 6, den |-> 1],
    [txt |-> <<"7">>, kind |-> "num", num |-> 7, den |-> 1],
    [txt |-> <<"8">>, kind |-> "num", num |-> 8, den |-> 1],
    [txt |-> <<"6", ".", "5">>, kind |-> "num", num |-> 65, den |-> 10],
    [txt |-> <<"7", ".", "4">>, kind |-> "num", num |-> 74, den |-> 10],
    [txt |-> <<"7", ".", "5">>, kind |-> "num", num |-> 75, den |-> 10],
    [txt |-> <<"9", "e", "5">>, kind |-> "num", num |-> 900000, den |-> 1],
    [txt |-> <<".", "1">>, kind |-> "num", num |-> 1, den |-> 10],
    [txt |-> <<"0", ".", "8", "7", "5">>, kind |-> "num", num |-> 875, den |-> 1000],
    [txt |-> <<"0", ".", "0", "6", "2", "5">>, kind |-> "num", num |-> 625, den |-> 10000],
    [txt |-> <<"0", ".", "0", "6">>, kind |-> "num", num |-> 6, den |-> 100],
    [txt |-> <<"0", ".", "0", "7">>, kind |-> "num", num |-> 7, den |-> 100],
    [txt |-> <<"0", ".", "0", "3">>, kind |-> "num", num |-> 3, den |-> 100],
    [txt |-> <<"1", "e", "-", "5">>, kind |-> "num", num |-> 1, den |-> 100000],
    [txt |-> <<"1", ".">>, kind |-> "num", num |-> 1, den |-> 1],
    [txt |-> <<"2", ".", "5", "e", "-", "1">>, kind |-> "num", num |-> 25, den |-> 100],
    [txt |-> <<"5", "E", "-", "1">>, kind |-> "num", num |-> 5, den |-> 10],
    [txt |-> <<"1", "e", "+", "1">>, kind |-> "num", num |-> 10, den |-> 1]
}

NonFiniteBodies == {
    [txt |-> <<"i", "n", "f">>, kind |-> "inf", num |-> 0, den |-> 1],
    [txt |-> <<"i", "n", "f", "i", "n", "i", "t", "y">>, kind |-> "inf", num |-> 0, den |-> 1],
    [txt |-> <<"n", "a", "n">>, kind |-> "nan", num |-> 0, den |-> 1]
}

\* Texts that are not a number, or a number followed by something.
BadTexts == {
    <<>>,
    <<".">>,
    <<"x">>,
    <<"e", "5">>,
    <<"i", "n">>,
    <<"1", "e">>,
    <<"1", "e", "+">>,
    <<"1", ".", "5", ".">>,
    <<"-", " ", "1">>,
    <<"+", "-", "1">>,
    <<"1", " ", "1">>,
    <<"i", "n", "f", "i">>,
    <<"n", "a">>
}

Leads == {<<>>, <<" ">>}

Signs == {[txt |-> <<>>, neg |-> FALSE], [txt |-> <<"+">>, neg |-> FALSE],
          [txt |-> <<"-">>, neg |-> TRUE]}

Tails == {<<" ">>, <<"x">>}

Denoting(txt, valid, kind, neg, num, den) ==
    [txt |-> txt, valid |-> valid, kind |-> kind, neg |-> neg, num |-> num, den |-> den]

Rejected(txt) == Denoting(txt, FALSE, "none", FALSE, 0, 1)

\* Every input text with what it denotes; valid is FALSE for the texts that
\* are not entirely a number.
StrInputs ==
    LET bodies == NumBodies \cup NonFiniteBodies
    IN  {Denoting(l \o sg.txt \o b.txt, TRUE, b.kind, sg.neg, b.num, b.den) :
             l \in Leads, sg \in Signs, b \in bodies}
        \cup {Rejected(l \o sg.txt \o b.txt \o t) :
                 l \in Leads, sg \in Signs, b \in bodies, t \in Tails}
        \cup {Rejected(l \o sg.txt \o t) : l \in Leads, sg \in Signs, t \in BadTexts}

Denotation(txt) == CHOOSE d \in StrInputs : d.txt = txt

\* Precisions given to the constructors and to set_precision.
StrPrecs == {0 - 1, 0} \cup (1..MaxStrPrec) \cup {default_prec, MPFR_PREC_MAX + 1}

\* --------------------------------------------- the constructor on its own
Arg(str, prec) == [str |-> str, prec |-> prec]

NoArg == Arg(NoStr, default_prec)

\* A caller that constructs an arb from one text at one precision (and may
\* destroy it and construct it again), with the underflow flag clear or left
\* set by earlier MPFR calls of the program.
InitStr ==
    /\ balls = [i \in Slots |-> NoBall]
    /\ ret = NoBall
    /\ call = NoCall
    /\ trace = <<>>
    /\ uflag \in BOOLEAN
    /\ arg \in {a \in {Arg(d.txt, p) : d \in StrInputs, p \in StrPrecs} :
                   InModel(a.str, a.prec)}

NextStr ==
    \/ StringCtor(1, arg.str, arg.prec)
    \/ Destroy(1)

SpecStr == InitStr /\ [][NextStr]_vars

\* ------------------------------------------------------- the whole class
\* Precisions, error values, operators and texts given to the members.
Precs == {0, 2, MPFR_PREC_MAX + 1}

Errs == {NaN, Fin(0 - One), Zero, PInf}

Ops == {"add", "sub", "mul"}

Operands == {BallArg(i) : i \in Slots} \cup NativeVals

Texts == {<<"1">>, <<"1", " ">>}

Init ==
    /\ balls = [i \in Slots |-> NoBall]
    /\ ret = NoBall
    /\ call = NoCall
    /\ trace = <<>>
    /\ uflag = FALSE
    /\ arg = NoArg

\* Only values inside the bounds are followed.
Kept == (\A i \in Slots : InDomain(balls'[i])) /\ InDomain(ret')

Next ==
    \/ \E i \in Slots : DefaultCtor(i)
    \/ \E i, j \in Slots : CopyCtor(i, j)
    \/ \E i, j \in Slots : MoveCtor(i, j)
    \/ \E i \in Slots, x \in NativeVals : GenericCtor(i, x)
    \/ \E i \in Slots, x \in NativeVals, p \in Precs : GenericCtorPrec(i, x, p, 0) /\ Kept
    \/ \E i \in Slots, s \in Texts, p \in Precs : StringCtor(i, s, p) /\ Kept
    \/ \E i \in Slots : Destroy(i)
    \/ DestroyTemp
    \/ \E i, j \in Slots : CopyAssign(i, j)
    \/ \E i, j \in Slots : MoveAssign(i, j)
    \/ \E i \in Slots, x \in NativeVals : GenericAssign(i, x)
    \/ \E i, j \in Slots : Swap(i, j)
    \/ \E i \in Slots, e \in Errs : AddError(i, e, 0) /\ Kept
    \/ \E i \in Slots, p \in Precs : SetPrecision(i, p)
    \/ \E i \in Slots : Negate(i)
    \/ \E op \in Ops, i \in Slots, x \in Operands : InPlace(op, i, x, 0) /\ Kept
    \/ \E op \in Ops, x, y \in Operands : Binary(op, x, y, 0) /\ Kept
    \/ \E i \in Slots : UnaryPlus(i)
    \/ \E i \in Slots : UnaryMinus(i)
    \/ \E i \in Slots : Cos(i)

Spec == Init /\ [][Next]_vars

\* ------------------------------------------------ stating the string claims
StrCall == call.op = "ctor_str"

\* The precisions the class accepts: 1 up to the backend maximum.
LegalPrec(p) == 1 <= p /\ p <= MPFR_PREC_MAX

\* The finite numbers with a p-bit mantissa and an exponent in range.
RepMags(p) ==
    {mant * Pow2(e - p + FracBits) : mant \in Pow2(p - 1)..(Pow2(p) - 1), e \in emin..emax}

RepVals(p) == {0} \cup RepMags(p) \cup {0 - a : a \in RepMags(p)}

\* den times the distance between the number d denotes and x units.
Gap(d, x) ==
    Abs((IF d.neg THEN 0 - d.num ELSE d.num) * One - x * d.den)

\* m is a p-bit number nearest to the number d denotes.
IsNearest(m, d, p) ==
    /\ m \in RepVals(p)
    /\ \A x \in RepVals(p) : Gap(d, m) <= Gap(d, x)

\* The number d denotes lies above m.
LiesAbove(d, m) == (IF d.neg THEN 0 - d.num ELSE d.num) * One > m * d.den

\* The p-bit numbers beyond m on the side of the number d denotes.
Beyond(m, d, p) ==
    IF LiesAbove(d, m) THEN {x \in RepVals(p) : x > m} ELSE {x \in RepVals(p) : x < m}

\* Distance between m and its neighbour on the side of the number d denotes.
NeighbourGap(m, d, p) ==
    LET nb == CHOOSE x \in Beyond(m, d, p) :
                  \A y \in Beyond(m, d, p) : Abs(x - m) <= Abs(y - m)
    IN  Abs(nb - m)

\* The number d denotes rounds, at p bits, to a finite number: it is below
\* the midpoint between the largest finite number and 2^emax.
RoundsFinite(d, p) ==
    IF p <= MaxStrPrec
      THEN 2 * d.num * One < d.den * (2 * Pow2(emax + FracBits) - Pow2(emax + FracBits - p))
      ELSE d.num * One < d.den * Pow2(emax + FracBits)

\* The number d denotes is not zero and rounds, at p bits and with an
\* unbounded exponent, to a number below the smallest positive one.
ParseUnderflows(d, p) ==
    /\ d.num # 0
    /\ d.num * One < d.den * MinPos
    /\ IF p <= MaxStrPrec
         THEN d.num * One * Pow2(p + 1) < d.den * MinPos * (Pow2(p + 1) - 1)
         ELSE d.num * One < d.den * MinPos

\* The ball in a slot encloses the number d denotes.
Encloses(b, d) ==
    \/ IsInf(b.rad)
    \/ IsFin(b.mid) /\ Gap(d, b.mid.n) <= b.rad.n * d.den

\* C1 (as stated, for the numbers that round to a finite midpoint): a text
\* denoting a finite number v that is not representable with p bits, without
\* underflow, gives a ball whose midpoint is v rounded to nearest and whose
\* radius is at least the distance to the neighbour of the midpoint on the
\* side of v, so that the ball encloses v.
C1_Claim ==
    LET d == Denotation(call.str)
        b == balls[call.self]
        p == call.prec
    IN  (/\ StrCall
         /\ LegalPrec(p) /\ p <= MaxStrPrec
         /\ d.valid /\ d.kind = "num"
         /\ ~Representable(d.num, d.den, p)
         /\ call.result # "underflow_error"
         /\ RoundsFinite(d, p))
        => /\ call.result = "ok"
           /\ b.live
           /\ IsFin(b.mid)
           /\ IsNearest(b.mid.n, d, p)
           /\ IF Beyond(b.mid.n, d, p) = {}
                THEN IsInf(b.rad)
                ELSE IsInf(b.rad) \/ b.rad.n >= NeighbourGap(b.mid.n, d, p)
           /\ Encloses(b, d)

C3_InvalidString ==
    LET d == Denotation(call.str)
    IN  (StrCall /\ LegalPrec(call.prec))
        => /\ ~d.valid => call.result = "invalid_argument" /\ ~balls[call.self].live
           /\ d.valid => call.result # "invalid_argument"

\* "1 " is rejected for its trailing white space.
C3_Witness ==
    /\ StrCall /\ call.str = <<"1", " ">> /\ LegalPrec(call.prec)
    /\ call.result = "invalid_argument"
    /\ ~balls[call.self].live

\* The distance between the midpoint the number rounds to and its neighbour
\* on the side of the number is below the smallest positive number.
RadiusUnderflows(d, p) ==
    /\ p <= MaxStrPrec
    /\ ~Representable(d.num, d.den, p)
    /\ RoundsFinite(d, p)
    /\ ~ParseUnderflows(d, p)
    /\ \E m \in RepVals(p) :
          /\ IsNearest(m, d, p)
          /\ Beyond(m, d, p) # {}
          /\ NeighbourGap(m, d, p) < MinPos

\* C4: the constructor fails with underflow_error, and constructs nothing,
\* when the parse underflows and when the radius computation underflows.
C4_Underflow ==
    LET d == Denotation(call.str)
        p == call.prec
    IN  (/\ StrCall /\ LegalPrec(p) /\ d.valid /\ d.kind = "num"
         /\ ParseUnderflows(d, p) \/ RadiusUnderflows(d, p))
        => call.result = "underflow_error" /\ ~balls[call.self].live

\* 0.07 parses without underflow at 2 bits; its radius underflows.
C4_Witness ==
    /\ StrCall /\ call.str = <<"0", ".", "0", "7">> /\ call.prec = 2
    /\ ~ParseUnderflows(Denotation(call.str), call.prec)
    /\ call.result = "underflow_error"

ParseSane ==
    \A d \in StrInputs :
        LET ps == strtofr_parse(d.txt)
        IN  /\ d.valid <=> ~string_rejected(ps.endptr, Len(d.txt))
            /\ d.valid => /\ ps.kind = d.kind
                          /\ ps.neg = d.neg
                          /\ ps.num * d.den = d.num * ps.den

\* --------------------------------------- the mutators of one object
\* An object in slot 1 in any state the constructors, set_precision and
\* add_error can leave it in, then add_error, set_precision and negate on it.
MaxSlack == 1

MutMids == {Zero, Fin(One), Fin(0 - One), NaN}

\* The radii a mag_t holds, up to MaxRad, and the infinite one.
MutRads == {Zero, PInf} \cup {Fin(r) : r \in {a \in 1..(MaxRad * One) : MagUp(a) = a}}

MutPrecs == {2, default_prec, MPFR_PREC_MAX}

\* The doubles passed to add_error: not a number, negative, zero, positive.
MutErrs ==
    {NaN, NInf, Fin(0 - One), Fin(0 - 1), Zero, Fin(1), Fin(5), Fin(One \div 2), Fin(One), PInf}

InitMut ==
    /\ \E m \in MutMids, r \in MutRads, p \in MutPrecs :
          balls = [i \in Slots |-> IF i = 1 THEN Ball(m, r, p) ELSE NoBall]
    /\ ret = NoBall
    /\ call = NoCall
    /\ trace = <<>>
    /\ uflag = FALSE
    /\ arg = NoArg

\* Only radii up to MaxRad are followed.
KeptMut == IsFin(balls'[1].rad) => balls'[1].rad.n <= MaxRad * One

NextMut ==
    \/ \E e \in MutErrs, k \in 0..MaxSlack : AddError(1, e, k) /\ KeptMut
    \/ \E p \in StrPrecs : SetPrecision(1, p)
    \/ Negate(1)

SpecMut == InitMut /\ [][NextMut]_vars

\* ------------------------------------------ stating the precision claims
\* C6: set_precision with a precision below 1 or above the backend maximum
\* fails with invalid_argument and leaves precision, midpoint and radius as
\* they were; with a legal precision it sets the precision and changes
\* neither midpoint nor radius.
C6_SetPrecision ==
    [][call'.op = "set_precision"
       => IF LegalPrec(call'.prec)
            THEN /\ call'.result = "ok"
                 /\ balls'[call'.self] = [balls[call'.self] EXCEPT !.prec = call'.prec]
            ELSE /\ call'.result = "invalid_argument"
                 /\ balls'[call'.self] = balls[call'.self]]_vars

\* A rejected set_precision on an object with a non-default precision and a
\* nonzero radius.
C6_Witness ==
    /\ call.op = "set_precision" /\ call.prec > MPFR_PREC_MAX
    /\ call.result = "invalid_argument"
    /\ balls[1].prec = 2
    /\ balls[1].rad # Zero

\* C7: every live object, and every returned one, has a precision between 1
\* and the backend maximum.
C7_PrecisionInRange ==
    /\ \A i \in Slots : balls[i].live => LegalPrec(balls[i].prec)
    /\ ret.live => LegalPrec(ret.prec)

\* An object whose precision was set, after a rejected set_precision.
C7_Witness ==
    /\ call.op = "set_precision" /\ call.result = "invalid_argument"
    /\ balls[call.self].live
    /\ balls[call.self].prec = 2

\* C8: the constructor from a native value and a precision outside the legal
\* range fails with invalid_argument before any backend call: nothing was
\* initialised, and no object exists.
C8_PrecisionFirst ==
    (call.op = "ctor_generic_prec" /\ ~LegalPrec(call.prec))
    => /\ call.result = "invalid_argument"
       /\ trace = <<>>
       /\ ~balls[call.self].live

\* arb(x, 0) was rejected.
C8_Witness ==
    /\ call.op = "ctor_generic_prec" /\ call.prec = 0
    /\ call.result = "invalid_argument"
    /\ trace = <<>>

\* ------------------------------------------ stating the add_error claims
\* err is not NaN and is zero or above.
NonNegative(err) == err = PInf \/ (IsFin(err) /\ err.n >= 0)

\* x <= y for two radii.
MagLeq(x, y) == IsInf(y) \/ (IsFin(x) /\ x.n <= y.n)

\* x + y <= z for two radii x, z and an error y.
SumLeq(x, y, z) == IsInf(z) \/ (IsFin(x) /\ IsFin(y) /\ x.n + y.n <= z.n)

\* C9 (as stated): add_error succeeds for every err that is not negative and
\* not NaN, zero and +infinity included, and fails with invalid_argument for
\* every negative or NaN err, leaving the object as it was.
C9_Claim ==
    [][call'.op = "add_error"
       => IF NonNegative(call'.x)
            THEN call'.result = "ok"
            ELSE /\ call'.result = "invalid_argument"
                 /\ balls'[call'.self] = balls[call'.self]]_vars

\* C10: a successful add_error(x) leaves a radius that is at least the radius
\* before plus x, an infinite one for x = +infinity, and changes neither the
\* midpoint nor the precision.
C10_AddError ==
    [][(call'.op = "add_error" /\ call'.result = "ok")
       => /\ SumLeq(balls[call'.self].rad, call'.x, balls'[call'.self].rad)
          /\ MagLeq(balls[call'.self].rad, balls'[call'.self].rad)
          /\ call'.x = PInf => balls'[call'.self].rad = PInf
          /\ balls'[call'.self].mid = balls[call'.self].mid
          /\ balls'[call'.self].prec = balls[call'.self].prec
          /\ balls'[call'.self].live]_vars

\* An error that no mag_t holds exactly, added to a nonzero radius.
C10_Witness ==
    /\ call.op = "add_error" /\ call.result = "ok"
    /\ call.x = Fin(5)
    /\ IsFin(balls[1].rad) /\ balls[1].rad.n > 6

\* ------------------------------- stating the construction and copy claims
\* C15: a default-constructed arb has midpoint 0, radius 0 and the default
\* precision, which is 53 bits.
C15_DefaultCtor ==
    call.op = "ctor_default"
    => /\ balls[call.self].live
       /\ balls[call.self].mid = Zero
       /\ balls[call.self].rad = Zero
       /\ balls[call.self].prec = default_prec
       /\ default_prec = 53

\* arb() in slot 2 beside an object in slot 1 that is not a default one.
C15_Witness ==
    /\ call.op = "ctor_default" /\ call.self = 2
    /\ balls[2] = Ball(Zero, Zero, 53)
    /\ balls[1].live /\ balls[1].prec = 2

\* The members that change the object they are called on.
Mutators ==
    {"set_precision", "add_error", "negate", "in_place_add", "in_place_sub", "in_place_mul"}

\* C17: the copy constructor and copy assignment give the destination the
\* midpoint, radius and precision of the source and leave the source as it
\* was; a copy assignment of an object to itself changes nothing; and a
\* mutator called on one object changes no other object.
C17_Copy ==
    [][/\ call'.op \in {"ctor_copy", "assign_copy"}
            => /\ call'.result = "ok"
               /\ balls'[call'.self] = balls[call'.other]
               /\ balls'[call'.other] = balls[call'.other]
               /\ call'.self = call'.other => balls' = balls
       /\ call'.op \in Mutators
            => \A j \in Slots \ {call'.self} : balls'[j] = balls[j]]_vars

\* A copy assignment between two objects that carried over a precision that
\* is not the default and a radius that is not zero.
C17_Witness ==
    /\ call.op = "assign_copy" /\ call.self # call.other
    /\ balls[call.self] = balls[call.other]
    /\ balls[call.self].prec = 2
    /\ balls[call.self].rad # Zero

\* C18: the move constructor gives the new object the midpoint, radius and
\* precision of the source and leaves the source with midpoint 0, radius 0
\* and the default precision.
C18_MoveCtor ==
    [][call'.op = "ctor_move"
       => /\ call'.result = "ok"
          /\ balls'[call'.self] = balls[call'.other]
          /\ balls'[call'.other] = Ball(Zero, Zero, default_prec)]_vars

\* A move construction from an object with precision 2 and a nonzero radius.
C18_Witness ==
    /\ call.op = "ctor_move"
    /\ balls[call.self].live
    /\ balls[call.self].prec = 2
    /\ balls[call.self].rad # Zero
    /\ balls[call.other] = Ball(Zero, Zero, default_prec)

\* C19: move assignment exchanges the two objects, and changes nothing when
\* an object is move-assigned to itself.
C19_MoveAssign ==
    [][call'.op = "assign_move"
       => /\ call'.result = "ok"
          /\ balls'[call'.self] = balls[call'.other]
          /\ balls'[call'.other] = balls[call'.self]
          /\ \A j \in Slots \ {call'.self, call'.other} : balls'[j] = balls[j]]_vars

\* After a = std::move(b) the source b holds a state that is not a zero ball.
C19_Witness ==
    /\ call.op = "assign_move" /\ call.self # call.other
    /\ balls[call.other].live
    /\ balls[call.other].prec = 2
    /\ balls[call.other].rad # Zero
    /\ balls[call.self] # balls[call.other]

\* --------------------------------------- construction from native values
\* The values given to arb(x) and to operator=(x): zero, small integers of
\* either sign, doubles with a fraction, an infinite double and a NaN, and
\* longs and unsigned longs of 53, 54, 63 and 64 significant bits (2^52 + 1
\* up to 2^63 + 1).
NativeWide ==
    {Native("si", Zero), Native("si", Fin(0 - One)), Native("si", Fin(3 * One)),
     Native("ui", Zero), Native("ui", Fin(One)),
     Native("d", Zero), Native("d", Fin(One \div 2)), Native("d", Fin(0 - (One + 1))),
     Native("d", NInf), Native("d", NaN),
     Native("si", Wide(FALSE, default_prec - 1)), Native("si", Wide(FALSE, default_prec)),
     Native("si", Wide(TRUE, default_prec)), Native("si", Wide(TRUE, 62)),
     Native("ui", Wide(FALSE, default_prec)), Native("ui", Wide(FALSE, 63))}

\* No object in slot 1, or one in any state the other members can leave.
InitNative ==
    /\ \/ balls = [i \in Slots |-> NoBall]
       \/ \E m \in MutMids, r \in MutRads, p \in MutPrecs :
             balls = [i \in Slots |-> IF i = 1 THEN Ball(m, r, p) ELSE NoBall]
    /\ ret = NoBall
    /\ call = NoCall
    /\ trace = <<>>
    /\ uflag = FALSE
    /\ arg = NoArg

NextNative ==
    \/ \E x \in NativeWide : GenericCtor(1, x)
    \/ \E x \in NativeWide : GenericAssign(1, x)
    \/ Destroy(1)

SpecNative == InitNative /\ [][NextNative]_vars

\* C16: arb(x) has midpoint exactly x, radius 0 and the default precision,
\* for every native x, those of more than 53 significant bits included.
C16_GenericCtor ==
    call.op = "ctor_generic"
    => /\ call.result = "ok"
       /\ balls[call.self].live
       /\ balls[call.self].mid = call.x
       /\ balls[call.self].rad = Zero
       /\ balls[call.self].prec = default_prec

\* arb(x) for a long x of 63 significant bits.
C16_Witness ==
    /\ call.op = "ctor_generic" /\ call.fam = "si"
    /\ SigBits(call.x) = 63 /\ SigBits(call.x) > default_prec
    /\ balls[call.self].mid = call.x
    /\ SigBits(balls[call.self].mid) = 63

\* C20: assigning a native x to an object in any state leaves midpoint x,
\* radius 0 and the default precision, the state of arb(x).
C20_GenericAssign ==
    [][call'.op = "assign_generic"
       => /\ call'.result = "ok"
          /\ balls[call'.self].live
          /\ balls'[call'.self] = Ball(call'.x, Zero, default_prec)]_vars

\* An assignment of the double 0.5.
C20_Witness ==
    /\ call.op = "assign_generic" /\ call.fam = "d"
    /\ call.x = Fin(One \div 2)
    /\ balls[call.self] = Ball(Fin(One \div 2), Zero, default_prec)

\* ------------------------------------------ the arithmetic of two objects
\* Two objects in states the constructors, set_precision and add_error can
\* leave them in, then the operators on them.  Midpoints and radii are
\* followed up to MaxArith.
MaxArith == 3

ArithMids == {Zero, Fin(One), Fin(MaxArith * One), Fin(0 - MaxArith * One), PInf}

ArithRads == {Zero, Fin(One)}

ArithPrecs == {1, 2, default_prec}

\* The states of the second object, which no operator changes.
ArithOthers ==
    {Ball(Fin(One), Zero, p) : p \in ArithPrecs}
    \cup {Ball(Fin(MaxArith * One), Fin(One), p) : p \in ArithPrecs}

\* Native operands, one of each family: a zero, a positive and a negative.
ArithNatives ==
    {Native("si", Zero), Native("ui", Fin(MaxArith * One)), Native("d", Fin(0 - One))}

ArithOperands == {BallArg(i) : i \in Slots} \cup ArithNatives

InArith(b) ==
    /\ IsFin(b.mid) => Abs(b.mid.n) <= MaxArith * One
    /\ IsFin(b.rad) => b.rad.n <= MaxArith * One

InitArith ==
    /\ \E m \in ArithMids, r \in ArithRads, p \in ArithPrecs, o \in ArithOthers :
          balls = [i \in Slots |-> IF i = 1 THEN Ball(m, r, p) ELSE o]
    /\ ret = NoBall
    /\ call = NoCall
    /\ trace = <<>>
    /\ uflag = FALSE
    /\ arg = NoArg

KeptArith == InArith(balls'[1]) /\ InArith(ret')

\* operator+=, -=, *= on the first object, and the negations.
NextInPlace ==
    \/ \E op \in Ops, x \in ArithOperands, k \in 0..MaxSlack : InPlace(op, 1, x, k) /\ KeptArith
    \/ Negate(1)
    \/ \E i \in Slots : UnaryPlus(i)
    \/ \E i \in Slots : UnaryMinus(i)
    \/ DestroyTemp

SpecInPlace == InitArith /\ [][NextInPlace]_vars

\* operator+, -, * on the two objects and the native values.
NextBinary ==
    \/ \E op \in Ops, x, y \in ArithOperands, k \in 0..MaxSlack : Binary(op, x, y, k) /\ KeptArith
    \/ DestroyTemp

SpecBinary == InitArith /\ [][NextBinary]_vars

\* ---------------------------------------- stating the arithmetic claims
InPlaceOps == {"in_place_add", "in_place_sub", "in_place_mul"}

BinaryOps == {"binary_add", "binary_sub", "binary_mul"}

\* The finite value v has at most p significant bits.
FitsBits(v, p) == ~IsFin(v) \/ BitLen(OddPart(Abs(v.n))) <= p

\* The exact sum, difference or product of a units and b units, in units.
ExactOp(name, a, b) ==
    IF name \in {"in_place_add", "binary_add"} THEN a + b
    ELSE IF name \in {"in_place_sub", "binary_sub"} THEN a - b
    ELSE (a * b) \div One

\* The opposite of a backend value.
Flip(v) ==
    IF IsFin(v) THEN Fin(0 - v.n)
    ELSE IF v = PInf THEN NInf
    ELSE IF v = NInf THEN PInf
    ELSE v

\* C11: an in-place +=, -= or *= with an arb operand leaves the receiver
\* with the larger of the two precisions and runs at that precision (the
\* midpoint is the exact result when that has no more bits than the
\* precision, and is rounded to that many bits otherwise); with a native
\* operand the precision of the receiver stays and the operation runs at
\* it.  The precision of the receiver never decreases.
C11_InPlacePrecision ==
    [][/\ balls[1].live /\ balls'[1].live => balls'[1].prec >= balls[1].prec
       /\ call'.op \in InPlaceOps
            => LET b == balls[call'.self]
                   a == balls'[call'.self]
                   ym == IF call'.fam = "ball" THEN balls[call'.other].mid ELSE call'.x
                   p == IF call'.fam = "ball"
                          THEN Max(b.prec, balls[call'.other].prec)
                          ELSE b.prec
               IN  /\ a.live
                   /\ a.prec = p
                   /\ FitsBits(a.mid, p)
                   /\ (IsFin(b.mid) /\ IsFin(ym))
                        => LET e == Fin(ExactOp(call'.op, b.mid.n, ym.n))
                           IN  IF FitsBits(e, p)
                                 THEN a.mid = e
                                 ELSE a.mid # e /\ a.rad # Zero]_vars

\* a += b with b of precision 2 left a with precision 2 and the midpoint 3,
\* which has two bits.
C11_Witness ==
    /\ call.op = "in_place_add" /\ call.fam = "ball" /\ call.self = 1 /\ call.other = 2
    /\ balls[2] = Ball(Fin(One), Zero, 2)
    /\ balls[1] = Ball(Fin(3 * One), Zero, 2)

\* C12: a binary +, - or * of two arbs returns an arb with the larger of the
\* two precisions, in either order; of an arb and a native value, in either
\* order, one with the precision of the arb.
C12_BinaryPrecision ==
    call.op \in BinaryOps
    => /\ call.result = "ok"
       /\ ret.live
       /\ ret.prec = IF call.fam = "ball"
                       THEN Max(balls[call.self].prec, balls[call.other].prec)
                       ELSE balls[IF call.self = 0 THEN call.other ELSE call.self].prec

\* a + b where the second operand has the larger precision.
C12_Witness ==
    /\ call.op = "binary_add" /\ call.fam = "ball"
    /\ balls[call.self].prec < balls[call.other].prec
    /\ ret.live
    /\ ret.prec = balls[call.other].prec

\* x - b for a native x: the call, the arb b and the value x.
NativeMinusBall == call.op = "binary_sub" /\ call.fam # "ball" /\ call.self = 0

\* The result of x - b is the opposite of b - x with the same radius.
NegatedDifference ==
    \E k \in 0..MaxSlack :
        LET d == binary_native("sub", balls[call.other], Native(call.fam, call.x), k)
        IN  /\ ret.mid = Flip(d.mid)
            /\ ret.rad = d.rad

\* C13 (as stated): x - b is the negation of b - x, its midpoint is x minus
\* the midpoint of b, its radius that of b - x, its precision that of b.
C13_Claim ==
    NativeMinusBall
    => /\ ret.live
       /\ ret.prec = balls[call.other].prec
       /\ NegatedDifference
       /\ IsFin(balls[call.other].mid)
            => ret.mid = Fin(call.x.n - balls[call.other].mid.n)

\* C13 (amended): x - b is the negation of b - x with the radius of b - x
\* and the precision of b; its midpoint is x minus the midpoint of b when
\* that has no more bits than the precision of b (also when x is 0 and when
\* the difference is 0), and otherwise that difference rounded towards zero
\* to the precision of b, with a radius that covers what was dropped.
C13_NativeMinusBall ==
    NativeMinusBall
    => LET b == balls[call.other]
           e == call.x.n - b.mid.n
       IN  /\ ret.live
           /\ ret.prec = b.prec
           /\ NegatedDifference
           /\ IsFin(b.mid)
                => IF FitsBits(Fin(e), b.prec)
                     THEN ret.mid = Fin(e)
                     ELSE /\ IsFin(ret.mid)
                          /\ FitsBits(ret.mid, b.prec)
                          /\ ret.mid.n * e > 0
                          /\ Abs(ret.mid.n) < Abs(e)
                          /\ IsInf(ret.rad) \/ Abs(e) - Abs(ret.mid.n) <= ret.rad.n

\* 0 - b for b = 3 at one bit: the midpoint is -2, not -3.
C13_Witness ==
    /\ NativeMinusBall /\ call.x = Zero
    /\ balls[call.other].mid = Fin(3 * One) /\ balls[call.other].prec = 1
    /\ ret.mid = Fin(0 - 2 * One)
    /\ ret.rad # Zero

\* C14: negate() replaces the midpoint by its opposite and leaves radius and
\* precision (twice gives the midpoint back, and zero stays zero); unary
\* minus returns a negated copy and unary plus a copy, and neither changes
\* its operand.
C14_Negate ==
    [][/\ call'.op = "negate"
            => /\ balls'[call'.self] =
                     [balls[call'.self] EXCEPT !.mid = Flip(balls[call'.self].mid)]
               /\ Flip(balls'[call'.self].mid) = balls[call'.self].mid
               /\ balls[call'.self].mid = Zero => balls'[call'.self].mid = Zero
               /\ \A j \in Slots \ {call'.self} : balls'[j] = balls[j]
       /\ call'.op = "unary_minus"
            => /\ ret' = [balls[call'.self] EXCEPT !.mid = Flip(balls[call'.self].mid)]
               /\ balls' = balls
       /\ call'.op = "unary_plus"
            => /\ ret' = balls[call'.self]
               /\ balls' = balls]_vars

\* negate() turned the midpoint -3 of an object with a radius and precision
\* 2 into 3.
C14_Witness ==
    /\ call.op = "negate"
    /\ balls[call.self].mid = Fin(3 * One)
    /\ balls[call.self].rad # Zero
    /\ balls[call.self].prec = 2

\* ------------------------------------------------ stating the swap claim
\* A caller that swaps two objects any number of times, by the member and by
\* the free function.
NextSwap ==
    \/ \E i, j \in Slots : Swap(i, j)
    \/ \E i, j \in Slots : FreeSwap(i, j)

SpecSwap == InitArith /\ [][NextSwap]_vars

SwapOps == {"swap", "free_swap"}

\* C21: a swap, by the member or by the free function, gives each of the two
\* objects the midpoint, radius and precision the other had and leaves any
\* third object alone; with twice the same object nothing changes; and a
\* second swap of the same pair gives back the state before the first.
C21_Swap ==
    [][call'.op \in SwapOps =>
         /\ balls'[call'.self] = balls[call'.other]
         /\ balls'[call'.other] = balls[call'.self]
         /\ \A k \in Slots \ {call'.self, call'.other} : balls'[k] = balls[k]
         /\ call'.self = call'.other => balls' = balls
         /\ swapped(balls', call'.self, call'.other) = balls
         /\ free_swap(balls', call'.self, call'.other) = balls
         /\ call'.result = "ok" /\ ~ret'.live]_vars

\* Two objects that differ in midpoint, radius and precision were swapped.
C21_Witness ==
    /\ call.op \in SwapOps /\ call.self = 1 /\ call.other = 2
    /\ balls[1].mid # balls[2].mid
    /\ balls[1].rad # balls[2].rad
    /\ balls[1].prec # balls[2].prec

\* ------------------------------------------------ stating the cosine claim
\* A caller that takes cosines of two objects, by the member and by the
\* free function.
NextCos ==
    \/ \E i \in Slots : Cos(i)
    \/ \E i \in Slots : FreeCos(i)
    \/ DestroyTemp

SpecCos == InitArith /\ [][NextCos]_vars

CosOps == {"cos", "free_cos"}

\* C24: cos(), as a member and as the free function, returns a new object
\* with the precision of its operand, holding one of the backend's
\* enclosures of the cosine, and leaves every object as it was; the free
\* function returns what the member returns for the same enclosure.
C24_Cos ==
    [][call'.op \in CosOps =>
         /\ ret'.live
         /\ ret'.prec = balls[call'.self].prec
         /\ MidRad(ret'.mid, ret'.rad) \in arb_cos(balls[call'.self])
         /\ ret' = cos(balls[call'.self], MidRad(ret'.mid, ret'.rad))
         /\ balls' = balls
         /\ call'.result = "ok"]_vars

\* The free function returned a cosine at a precision that is not the default.
C24_Witness ==
    /\ call.op = "free_cos" /\ ret.live
    /\ ret.prec = balls[call.self].prec
    /\ ret.prec # default_prec
    /\ ret.rad # Zero

\* -------------------------------------------- stating the streaming claims
StreamMids == {Zero, Fin(One), Fin(0 - 3 * One), PInf, NInf, NaN}

StreamRads == {Zero, Fin(One), PInf}

StreamPrecs == {2, default_prec}

StreamOuts == UNION {mpfr_get_str(v) : v \in StreamMids \cup StreamRads}

\* A caller that streams one object.
InitStream ==
    /\ \E m \in StreamMids, r \in StreamRads, p \in StreamPrecs :
          balls = [i \in Slots |-> IF i = 1 THEN Ball(m, r, p) ELSE NoBall]
    /\ ret = NoBall
    /\ call = NoCall
    /\ trace = <<>>
    /\ uflag = FALSE
    /\ arg = NoArg

NextStream == \E om, or \in StreamOuts : Stream(1, om, or)

SpecStream == InitStream /\ [][NextStream]_vars

\* The characters the last operation wrote, in order.
RECURSIVE Written(_)
Written(tr) ==
    IF tr = <<>> THEN <<>>
    ELSE (IF Head(tr)[1] = "write" THEN Head(tr)[3] ELSE <<>>) \o Written(Tail(tr))

\* What the backend returned to the conversions of the last operation.
Conversions(tr) == SelectSeq(tr, LAMBDA e : e[1] = "mpfr_get_str")

\* The precisions of the temporaries the conversions were made with.
ConvPrecs(tr) == {tr[k][3] : k \in {j \in 1..Len(tr) : tr[j][1] = "mpfr_init2"}}

HasDigit(str) == \E k \in 1..Len(str) : is_digit(str[k])

\* The integer an exponent text denotes.
ExpValue(x) ==
    IF x[1] = "-" THEN 0 - DigitsValue(x, 2, Len(x) + 1, 0) ELSE DigitsValue(x, 1, Len(x) + 1, 0)

\* x is a decimal integer: an optional minus sign, then digits of which the
\* first is 0 only when it is the only one.
Canonical(x) ==
    LET d == IF x[1] = "-" THEN Tail(x) ELSE x
    IN  /\ d # <<>>
        /\ \A k \in 1..Len(d) : is_digit(d[k])
        /\ Len(d) > 1 => d[1] # "0"

\* text renders the value v by the rule, from the digit string and the
\* exponent of out.
Renders(text, v, out) ==
    IF ~HasDigit(out.str) THEN text = out.str
    ELSE \E sign \in {<<>>, <<"-">>}, k \in 1..Len(text) :
           /\ out.str = sign \o SubSeq(out.str, Len(sign) + 1, Len(out.str))
           /\ is_digit(out.str[Len(sign) + 1])
           /\ SubSeq(text, 1, k) =
                 sign \o <<out.str[Len(sign) + 1], ".">>
                 \o SubSeq(out.str, Len(sign) + 2, Len(out.str))
           /\ IF v # Zero /\ out.exp - 1 # 0
                THEN /\ k + 1 < Len(text)
                     /\ text[k + 1] = "e"
                     /\ Canonical(SubSeq(text, k + 2, Len(text)))
                     /\ ExpValue(SubSeq(text, k + 2, Len(text))) = out.exp - 1
              ELSE k = Len(text)

Streaming == call.op = "stream"

\* The writes of the last operation, one entry each.
Writes(tr) == SelectSeq(tr, LAMBDA e : e[1] = "write")

\* C22: a stream operation that returns has written "(", the midpoint, the
\* separator " +/- ", the radius and ")", both conversions were made at the
\* precision of the object, and each half is the backend's digit string with
\* a radix point after the first digit and, exactly when the value is not
\* zero and the exponent less one is not zero, "e" and that number; a string
\* without digits is written as it is.
C22_StreamFormat ==
    Streaming /\ call.result = "ok" =>
        /\ Len(Writes(trace)) = 5 /\ Len(Conversions(trace)) = 2
        /\ ConvPrecs(trace) = {balls[call.self].prec}
        /\ Writes(trace)[1][3] = <<"(">>
        /\ Renders(Writes(trace)[2][3], balls[call.self].mid, Conversions(trace)[1][3])
        /\ Writes(trace)[3][3] = <<" ", "+", "/", "-", " ">>
        /\ Renders(Writes(trace)[4][3], balls[call.self].rad, Conversions(trace)[2][3])
        /\ Writes(trace)[5][3] = <<")">>

\* A negative midpoint with an exponent and a zero radius were written.
C22_Witness ==
    /\ Streaming /\ call.result = "ok"
    /\ balls[call.self].mid = Fin(0 - 3 * One) /\ balls[call.self].rad = Zero
    /\ Written(trace) = <<"(", "-", "2", ".", "5", "e", "1", "0", " ", "+", "/", "-", " ",
                          "0", ".", "0", ")">>

\* The value the k-th conversion of a stream operation converts.
Converted(b, k) == IF k = 1 THEN b.mid ELSE b.rad

\* The conversion of out fails.
MustFail(out) == out.null \/ (HasDigit(out.str) /\ out.exp = EXP_MIN)

\* C23: a conversion for which the backend returns no string, or a string
\* with digits and the smallest exponent, ends the stream operation with
\* invalid_argument, and in the second case the exponent still has the
\* backend's value when the conversion ends; a conversion that was followed
\* by another one was of neither kind.
C23_ConversionFails ==
    Streaming =>
        LET cs == Conversions(trace)
            out == cs[Len(cs)][3]
        IN  /\ Len(cs) \in 1..2
            /\ MustFail(out) => call.result = "invalid_argument"
            /\ ~out.null /\ MustFail(out) =>
                  print_fmpr(Converted(balls[call.self], Len(cs)), out).exp = EXP_MIN
            /\ Len(cs) = 2 => ~MustFail(cs[1][3])

\* The conversion of a radius failed on the smallest exponent.
C23_Witness ==
    /\ Streaming /\ call.result = "invalid_argument"
    /\ Len(Conversions(trace)) = 2
    /\ ~Conversions(trace)[2][3].null
    /\ Conversions(trace)[2][3].exp = EXP_MIN

\* C28 as claimed: a stream operation that fails with invalid_argument has
\* written no character.
C28_Claim ==
    Streaming /\ call.result = "invalid_argument" => Written(trace) = <<>>

\* ------------------------------------- stating the rounding constructor
\* Native values for arb(x, prec): some need more bits than the small
\* precisions have, some more than the default precision.
RoundNatives ==
    {Native("si", Zero), Native("si", Fin(0 - One)), Native("si", Fin(3 * One)),
     Native("si", Fin(0 - 5 * One)), Native("si", Fin(0 - 42 * One)),
     Native("ui", Fin(One)), Native("ui", Fin(42 * One)),
     Native("d", Zero), Native("d", Fin(One \div 2)), Native("d", Fin(0 - (One + 1))),
     Native("d", Fin(3 * One)), Native("d", PInf), Native("d", NInf), Native("d", NaN),
     Native("si", Wide(FALSE, default_prec)), Native("si", Wide(TRUE, 62)),
     Native("ui", Wide(FALSE, 63))}

RoundPrecs ==
    {0, 1, 2, 3, default_prec - 1, default_prec, default_prec + 1, MPFR_PREC_MAX,
     MPFR_PREC_MAX + 1}

\* The roundings whose error bound the model can hold.
RoundInModel(x, prec) == x.val.k = "wide" => prec >= default_prec - 1

InitRound ==
    /\ balls = [i \in Slots |-> NoBall]
    /\ ret = NoBall
    /\ call = NoCall
    /\ trace = <<>>
    /\ uflag = FALSE
    /\ arg = NoArg

NextRound ==
    \/ \E x \in RoundNatives :
          \E p \in {q \in RoundPrecs : RoundInModel(x, q)}, k \in 0..MaxSlack :
             GenericCtorPrec(1, x, p, k)
    \/ Destroy(1)

SpecRound == InitRound /\ [][NextRound]_vars

\* The object b encloses the native value x, with radius zero exactly when
\* x has at most p significant bits.  A wide value 2^e + 1 is either kept or
\* cut to 2^e, which is 1 away from it.
EnclosesNative(b, x, p) ==
    IF x.k = "wide"
      THEN /\ IsFin(b.rad)
           /\ IF SigBits(x) <= p THEN b.mid = x /\ b.rad = Zero
              ELSE b.mid = WidePow2(x.n < 0, Abs(x.n)) /\ b.rad.n >= One
    ELSE IF IsFin(x)
      THEN /\ IsFin(b.mid) /\ IsFin(b.rad)
           /\ Abs(x.n - b.mid.n) <= b.rad.n
           /\ b.rad.n = 0 <=> BitLen(OddPart(Abs(x.n))) <= p
           /\ BitLen(OddPart(Abs(b.mid.n))) <= p
    ELSE b.mid = x /\ b.rad = Zero

\* C26: arb(x, p) with a legal p succeeds, has precision p and encloses x:
\* the distance from x to the midpoint is at most the radius, the radius is
\* zero when x has at most p significant bits and not zero otherwise (and
\* the midpoint has at most p bits); an x that is not finite is kept as the
\* midpoint with radius zero.
C26_RoundedCtor ==
    call.op = "ctor_generic_prec" /\ LegalPrec(call.prec) =>
        /\ call.result = "ok"
        /\ balls[call.self].live
        /\ balls[call.self].prec = call.prec
        /\ EnclosesNative(balls[call.self], call.x, call.prec)

\* -5 was constructed at 2 bits: the midpoint is not -5 and the radius
\* covers the difference.
C26_Witness ==
    /\ call.op = "ctor_generic_prec" /\ call.result = "ok"
    /\ call.x = Fin(0 - 5 * One) /\ call.prec = 2
    /\ balls[call.self].mid # call.x
    /\ balls[call.self].rad # Zero

\* ------------------------------- stating the order of the string constructor
\* C27 as claimed: the constructor from a string, given a precision outside
\* the legal range, fails with invalid_argument without having initialised
\* an MPFR object at that precision and without having parsed the string.
C27_Claim ==
    StrCall /\ ~LegalPrec(call.prec) =>
        /\ call.result = "invalid_argument"
        /\ \A k \in 1..Len(trace) : trace[k][1] \notin {"mpfr_init2", "mpfr_strtofr"}

\* ------------------------------------------ stating the underflow flag
\* C30 as claimed: when the constructor from a string ends, the underflow
\* flag is clear, whatever it was before and however the constructor ended,
\* and the constructor fails with underflow_error only for a number whose
\* parse or whose radius underflows.
C30_Claim ==
    StrCall =>
        /\ uflag = FALSE
        /\ call.result = "underflow_error" =>
              /\ Denotation(call.str).valid /\ Denotation(call.str).kind = "num"
              /\ \/ ParseUnderflows(Denotation(call.str), call.prec)
                 \/ RadiusUnderflows(Denotation(call.str), call.prec)

\* ----------------------------------- an object used next to another one
\* A caller that has one object (slot 2) and constructs, uses and destroys a
\* second one (slot 1) next to it.
OpsOthers ==
    {Ball(Fin(One), Zero, 2), Ball(Fin(One), Fin(One), default_prec),
     Ball(PInf, Zero, default_prec)}

OpsPrecs == {0, 1, 2}

OpsTexts ==
    {<<"1">>, <<"1", "x">>, <<"1", ".", "3">>, <<"1", "e", "-", "5">>, <<"0", ".", "0", "7">>}

OpsOperands == {BallArg(1), BallArg(2), Native("d", Fin(One))}

\* What the backend gives the conversions of operator<<.
OpsOuts ==
    {NullOut, StrOut(FALSE, <<"0">>, 0), StrOut(FALSE, <<"1">>, 0),
     StrOut(FALSE, <<"1">>, EXP_MIN), StrOut(FALSE, <<"-", "1">>, 0)}
    \cup mpfr_get_str(PInf) \cup mpfr_get_str(NInf) \cup mpfr_get_str(NaN)

InitOps ==
    /\ \E o \in OpsOthers : balls = [i \in Slots |-> IF i = 1 THEN NoBall ELSE o]
    /\ ret = NoBall
    /\ call = NoCall
    /\ trace = <<>>
    /\ uflag = FALSE
    /\ arg = NoArg

NextOps ==
    \/ DefaultCtor(1)
    \/ CopyCtor(1, 2)
    \/ MoveCtor(1, 2)
    \/ \E x \in NativeVals : GenericCtor(1, x)
    \/ \E x \in NativeVals, p \in OpsPrecs : GenericCtorPrec(1, x, p, 0) /\ Kept
    \/ \E s \in OpsTexts, p \in OpsPrecs : StringCtor(1, s, p) /\ Kept
    \/ Destroy(1)
    \/ DestroyTemp
    \/ \E j \in Slots : CopyAssign(1, j)
    \/ \E op \in Ops, x \in OpsOperands : InPlace(op, 1, x, 0) /\ Kept
    \/ \E op \in Ops, x, y \in OpsOperands : Binary(op, x, y, 0) /\ Kept
    \/ \E i \in Slots : UnaryPlus(i)
    \/ \E i \in Slots : UnaryMinus(i)
    \/ \E i \in Slots : Cos(i)
    \/ \E i \in Slots : FreeCos(i)
    \/ \E i \in Slots, om, or \in OpsOuts : Stream(i, om, or)

SpecOps == InitOps /\ [][NextOps]_vars

\* The operations that take their operands as const and have no receiver.
ConstOps == BinaryOps \cup CosOps \cup {"unary_plus", "unary_minus", "stream"}

\* C25: a binary +, -, *, a unary + or -, a cosine and a stream operation
\* leave every object as it was, whether they return or fail; a copy
\* construction, a copy assignment and an in-place operation change no
\* object but their receiver, so the source of a copy and the operand b of
\* a op= b keep midpoint, radius and precision.
C25_Frame ==
    [][/\ call'.op \in ConstOps => balls' = balls
       /\ call'.op \in {"ctor_copy", "assign_copy"} \cup InPlaceOps =>
             \A k \in Slots \ {call'.self} : balls'[k] = balls[k]]_vars

\* a op= b was done with an operand b of higher precision than a had: a
\* has b's precision now and another midpoint than b.
C25_Witness ==
    /\ call.op \in InPlaceOps /\ call.self = 1 /\ call.other = 2 /\ call.fam = "ball"
    /\ balls[2] = Ball(Fin(One), Fin(One), default_prec)
    /\ balls[1].prec = default_prec
    /\ balls[1].mid # balls[2].mid

\* ------------------------------------------- stating the resource claim
\* The temporaries of the members: the MPFR, fmpr and arf objects and the
\* digit string.
Temps == {"m", "tmp0", "tmp1", "f", "t", "tmp_arf", "cptr"}

\* The trace entry e initialises (allocates) its target, or releases it.
Acquires(e) ==
    \/ e[1] \in {"mpfr_init2", "fmpr_init", "arf_init"}
    \/ e[1] = "mpfr_get_str" /\ ~e[3].null

Releases(e) == e[1] \in {"mpfr_clear", "fmpr_clear", "arf_clear", "mpfr_free_str"}

\* The initialisations and releases of the temporary T in the trace tr.
Lifetime(tr, T) == SelectSeq(tr, LAMBDA e : e[2] = T /\ (Acquires(e) \/ Releases(e)))

\* T is initialised before each release and released once after each
\* initialisation.
Balanced(tr, T) ==
    /\ Len(Lifetime(tr, T)) % 2 = 0
    /\ \A k \in 1..Len(Lifetime(tr, T)) :
          IF k % 2 = 1 THEN Acquires(Lifetime(tr, T)[k]) ELSE Releases(Lifetime(tr, T)[k])

\* Number of calls of fn on target in the trace tr.
Count(tr, fn, target) == Len(SelectSeq(tr, LAMBDA e : e[1] = fn /\ e[2] = target))

CtorOps ==
    {"ctor_default", "ctor_copy", "ctor_move", "ctor_generic", "ctor_generic_prec", "ctor_str"}

\* What an operation that returned or threw leaves behind.
Released ==
    /\ \A T \in Temps : Balanced(trace, T)
    /\ Count(trace, "arb_init", "m_arb") =
          (IF call.op \in CtorOps /\ call.result = "ok" THEN 1 ELSE 0)
    /\ call.op \in CtorOps => (balls[call.self].live <=> call.result = "ok")
    /\ Count(trace, "arb_clear", "m_arb") = (IF call.op = "dtor" THEN 1 ELSE 0)
    /\ Count(trace, "arb_init", "retval") = (IF ret.live THEN 1 ELSE 0)
    /\ Count(trace, "arb_clear", "retval") = (IF call.op = "dtor_temp" THEN 1 ELSE 0)

\* C29: after every operation that returns or throws, each temporary it
\* initialised has been released once, after its initialisation, and none
\* has been released otherwise; the storage of an object is initialised
\* exactly by a constructor that succeeds and cleared exactly by the
\* destructor of a constructed object; the storage of a returned value is
\* initialised by the operation that returns it and cleared by its
\* destructor.
C29_Resources ==
    [][call'.result # "abort" =>
         /\ Released'
         /\ call'.op = "dtor" => balls[call'.self].live /\ ~balls'[call'.self].live
         /\ call'.op = "dtor_temp" => ret.live /\ ~ret'.live]_vars

\* The constructor from a string failed on the underflow of the radius,
\* after its three MPFR temporaries were initialised.
C29_Witness ==
    /\ call.op = "ctor_str" /\ call.result = "underflow_error"
    /\ ~balls[call.self].live
    /\ Count(trace, "mpfr_init2", "tmp1") = 1
    /\ Count(trace, "mpfr_clear", "tmp1") = 1
    /\ Count(trace, "mpfr_clear", "m") = 1

====
